---------------------------- MODULE Spec2Model ----------------------------
(***************************************************************************)
(* Verification model of bitvm/src/bn254/g1.rs: the affine G1 generators   *)
(* (line checks, check_add, check_double, the windowed constant-base       *)
(* scalar multiplier, the evaluation-point encoders) together with the     *)
(* execution of the scripts they emit on a stack machine.                  *)
(*                                                                         *)
(* The base field and the curve are scaled down: y^2 = x^3 + 3 over F_7,   *)
(* a curve of prime order 13 (as BN254 it has cofactor 1, no point with    *)
(* y = 0 and (0,0) is off the curve).  One field element is one stack      *)
(* item (N_LIMBS = 1).  The top of a stack is the last element of the      *)
(* sequence; hints are pushed first and therefore sit at the bottom.       *)
(***************************************************************************)
EXTENDS Integers, Sequences, FiniteSets, TLC

VARIABLES
    mode,       \* which generator is exercised
    phase,      \* "gen" | "build" | "run" | "done" | "failed" | "panic"
                \* | "witness" | "read"
    T, Q,       \* point arguments / points pushed on the stack; for the
                \* multiplier T is the base point as the caller passed it
    c3, c4,     \* coefficient pair (alpha, -bias) given to the generator / pushed
    rest,       \* hints of later fragments lying above this fragment's hints
    prover,     \* TRUE: the hints are a prover's, made for the coefficients pushed
    forged,     \* which value a dishonest party replaced: [list, at], list "none" when honest
    witness,    \* the final stack as byte vectors (extract_witness_from_stack)
    recovered,  \* <<the point read_from_stack returned>>, empty before
    script,     \* the compiled script, a sequence of opcodes
    hints,      \* the hint list returned by the generator
    pc,         \* index of the next opcode
    stack,      \* main stack
    alt,        \* alt stack
    cond,       \* stack of open OP_IF conditions
    failOp,     \* opcode at which execution failed ("" when none)
    used,       \* the hints taken from the bottom of the stack so far, in order
    \* hinted_scalar_mul_by_constant_g1
    scalar,     \* the scalar argument, also pushed on the stack
    i_step,     \* window width
    p,          \* the base point argument (&mut p)
    p_mul,      \* precomputed lookup table
    c,          \* the accumulator tracked by the generator
    i,          \* bit offset of the current window
    dbl,        \* doublings emitted for the current window
    coeff, step_p, trace,   \* the three lists of the windowing trace
    coeff_iter, step_p_iter, trace_iter,   \* entries each iterator has yielded
    loop_scripts,           \* Vec of the per-step scripts
    marks       \* history: the steps emitted so far (kind, c before it, table
                \* entry, c after it, hints emitted)

vars == <<mode, phase, T, Q, c3, c4, rest, prover,
          forged, witness, recovered, script, hints, pc, stack,
          alt, cond, failOp, used, scalar, i_step, p, p_mul, c, i, dbl,
          coeff, step_p, trace, coeff_iter, step_p_iter, trace_iter,
          loop_scripts, marks>>

bvars == <<scalar, i_step, p, p_mul, c, i, dbl, coeff, step_p, trace,
           coeff_iter, step_p_iter, trace_iter, loop_scripts, marks>>

(* what execution never changes *)
static == <<mode, T, Q, c3, c4, rest, prover,
            forged, witness, recovered, script, hints, bvars>>

---------------------------------------------------------------------------
(* Base field Fq                                                           *)

FieldPrime == 7

Fq == 0 .. (FieldPrime - 1)

FAdd(a, b) == (a + b) % FieldPrime
FSub(a, b) == (a - b + FieldPrime) % FieldPrime
FNeg(a) == (FieldPrime - a) % FieldPrime
FMul(a, b) == (a * b) % FieldPrime
FSquare(a) == FMul(a, a)
FInv(a) == CHOOSE b \in Fq : FMul(a, b) = 1
FDiv(a, b) == FMul(a, FInv(b))

(* the quotient a verified multiplication is given as its hint *)
MulQuotient(a, b) == (a * b) \div FieldPrime

---------------------------------------------------------------------------
(* The curve y^2 = x^3 + CurveB and its group law                          *)

CurveB == 3

Zero == <<0, 0>>

IsZero(pt) == pt = Zero

OnCurve(pt) == FSquare(pt[2]) = FAdd(FMul(FSquare(pt[1]), pt[1]), CurveB)

FinitePoints == {pt \in Fq \X Fq : OnCurve(pt)}

Points == FinitePoints \cup {Zero}

PointNeg(pt) == <<pt[1], FNeg(pt[2])>>

(* complete addition, as the library computes (a + b).into_affine() *)
PointAdd(a, b) ==
    IF IsZero(a) THEN b
    ELSE IF IsZero(b) THEN a
    ELSE IF a[1] = b[1] /\ a[2] # b[2] THEN Zero
    ELSE IF a[1] = b[1] /\ a[2] = 0 THEN Zero
    ELSE LET l == IF a = b
                  THEN FDiv(FMul(3, FSquare(a[1])), FMul(2, a[2]))
                  ELSE FDiv(FSub(b[2], a[2]), FSub(b[1], a[1]))
             x == FSub(FSub(FSquare(l), a[1]), b[1])
             y == FSub(FMul(l, FSub(a[1], x)), a[2])
         IN <<x, y>>

RECURSIVE PointMul(_, _)
PointMul(k, pt) == IF k = 0 THEN Zero ELSE PointAdd(PointMul(k - 1, pt), pt)

(* the scalar field Fr: the group order and its bit length *)
GroupOrder == Cardinality(Points)

Fr == 0 .. (GroupOrder - 1)

N_BITS == CHOOSE n \in 1 .. GroupOrder : 2 ^ (n - 1) <= GroupOrder /\ GroupOrder < 2 ^ n

get_bit(k, n) == (k \div (2 ^ n)) % 2

---------------------------------------------------------------------------
(* Stack helpers: depth 0 is the top                                       *)

At(s, n) == s[Len(s) - n]

Remove(s, n) == SubSeq(s, 1, Len(s) - n - 1) \o SubSeq(s, Len(s) - n + 1, Len(s))

Remove2(s, a, b) ==
    IF a > b THEN Remove(Remove(s, a), b) ELSE Remove(Remove(s, b), a)

Bool(b) == IF b THEN 1 ELSE 0

---------------------------------------------------------------------------
(* Field Arithmetic Provider: the script fragments of Fq.  A script is a   *)
(* sequence of opcodes <<name, a, b>>.                                     *)

Fq_copy(n) == << <<"Fq_copy", n, 0>> >>
Fq_roll(n) == << <<"Fq_roll", n, 0>> >>
Fq_drop == << <<"Fq_drop", 0, 0>> >>
Fq_push(v) == << <<"Fq_push", v, 0>> >>
Fq_push_zero == << <<"Fq_push", 0, 0>> >>
Fq_push_one == << <<"Fq_push", 1, 0>> >>
Fq_add(a, b) == << <<"Fq_add", a, b>> >>
Fq_sub(a, b) == << <<"Fq_sub", a, b>> >>
Fq_double(a) == << <<"Fq_double", a, 0>> >>
Fq_neg(a) == << <<"Fq_neg", a, 0>> >>
Fq_equal(a, b) == << <<"Fq_equal", a, b>> >>
Fq_equalverify(a, b) == << <<"Fq_equalverify", a, b>> >>
Fq_is_zero(a) == << <<"Fq_is_zero", a, 0>> >>
Fq_is_zero_keep_element(a) == << <<"Fq_is_zero_keep_element", a, 0>> >>
Fq_toaltstack == << <<"OP_TOALTSTACK", 0, 0>> >>
Fq_fromaltstack == << <<"OP_FROMALTSTACK", 0, 0>> >>

OP_TOALTSTACK == << <<"OP_TOALTSTACK", 0, 0>> >>
OP_FROMALTSTACK == << <<"OP_FROMALTSTACK", 0, 0>> >>
OP_BOOLAND == << <<"OP_BOOLAND", 0, 0>> >>
OP_VERIFY == << <<"OP_VERIFY", 0, 0>> >>
OP_IF == << <<"OP_IF", 0, 0>> >>
OP_NOTIF == << <<"OP_NOTIF", 0, 0>> >>
OP_ELSE == << <<"OP_ELSE", 0, 0>> >>
OP_ENDIF == << <<"OP_ENDIF", 0, 0>> >>
(* for _ in 0..Fq::N_LIMBS { OP_DEPTH OP_1SUB OP_ROLL }: the bottom element to the top *)
OP_DEPTH_OP_1SUB_OP_ROLL == << <<"OP_DEPTH_OP_1SUB_OP_ROLL", 0, 0>> >>

(* verified multiplication of the elements at depths da and db; hint: the quotient *)
Fq_hinted_mul(da, a, db, b) ==
    [script |-> << <<"Fq_hinted_mul", da, db>> >>, hints |-> <<MulQuotient(a, b)>>]

Fq_hinted_square(a) ==
    [script |-> << <<"Fq_hinted_square", 0, 0>> >>, hints |-> <<MulQuotient(a, a)>>]

---------------------------------------------------------------------------
(* Line-Equation Verifier                                                  *)

(* faulty variant: the operands of the subtraction swapped (x*alpha - y) *)
hinted_check_line_through_point_swapped(x, alpha) ==
    LET m1 == Fq_hinted_mul(1, x, 3, alpha)
    IN [script |-> m1.script \o Fq_sub(0, 1) \o Fq_add(1, 0)
                     \o Fq_push_zero \o Fq_equal(1, 0),
        hints |-> m1.hints]

hinted_check_line_through_point(x, alpha) ==
    LET m1 == Fq_hinted_mul(1, x, 3, alpha)
    IN [script |-> m1.script \o Fq_sub(1, 0) \o Fq_add(1, 0)
                     \o Fq_push_zero \o Fq_equal(1, 0),
        hints |-> m1.hints]

(* faulty variant: the boolean of the check of Q is dropped instead of ANDed *)
hinted_check_chord_line_no_and(t, q, alpha) ==
    LET l1 == hinted_check_line_through_point(q[1], alpha)
        l2 == hinted_check_line_through_point(t[1], alpha)
    IN [script |-> Fq_copy(5) \o Fq_copy(5) \o Fq_roll(3) \o Fq_roll(3)
                     \o l1.script \o OP_TOALTSTACK
                     \o l2.script \o OP_FROMALTSTACK \o Fq_drop,
        hints |-> l1.hints \o l2.hints]

hinted_check_chord_line(t, q, alpha) ==
    LET l1 == hinted_check_line_through_point(q[1], alpha)
        l2 == hinted_check_line_through_point(t[1], alpha)
    IN [script |-> Fq_copy(5) \o Fq_copy(5) \o Fq_roll(3) \o Fq_roll(3)
                     \o l1.script \o OP_TOALTSTACK
                     \o l2.script \o OP_FROMALTSTACK \o OP_BOOLAND,
        hints |-> l1.hints \o l2.hints]

(* faulty variant: the slope identity compares with 2 x^2 instead of 3 x^2 *)
hinted_check_tangent_line_two_x2(t, alpha) ==
    LET m1 == Fq_hinted_mul(1, FAdd(t[2], t[2]), 0, alpha)
        s2 == Fq_hinted_square(t[1])
        l3 == hinted_check_line_through_point(t[1], alpha)
    IN [script |-> Fq_copy(0) \o Fq_double(0) \o Fq_copy(4) \o m1.script
                     \o Fq_copy(2) \o s2.script
                     \o Fq_double(0)
                     \o Fq_sub(1, 0) \o Fq_is_zero(0) \o OP_TOALTSTACK
                     \o l3.script \o OP_FROMALTSTACK \o OP_BOOLAND,
        hints |-> m1.hints \o s2.hints \o l3.hints]

hinted_check_tangent_line(t, alpha) ==
    LET m1 == Fq_hinted_mul(1, FAdd(t[2], t[2]), 0, alpha)
        s2 == Fq_hinted_square(t[1])
        l3 == hinted_check_line_through_point(t[1], alpha)
    IN [script |-> Fq_copy(0) \o Fq_double(0) \o Fq_copy(4) \o m1.script
                     \o Fq_copy(2) \o s2.script
                     \o Fq_copy(0) \o Fq_double(0) \o Fq_add(1, 0)
                     \o Fq_sub(1, 0) \o Fq_is_zero(0) \o OP_TOALTSTACK
                     \o l3.script \o OP_FROMALTSTACK \o OP_BOOLAND,
        hints |-> m1.hints \o s2.hints \o l3.hints]

---------------------------------------------------------------------------
(* G1Affine stack helpers                                                  *)

G1_push_zero == Fq_push_zero \o Fq_push_zero

G1_identity == Fq_push_zero \o Fq_push_zero

G1_push(element) == Fq_push(element[1]) \o Fq_push(element[2])

(* faulty variant: the fetch from the alt stack before the store to it *)
G1_is_zero_keep_element_swapped ==
    Fq_is_zero_keep_element(0) \o OP_FROMALTSTACK
      \o Fq_is_zero_keep_element(1) \o OP_TOALTSTACK \o OP_BOOLAND

G1_is_zero_keep_element ==
    Fq_is_zero_keep_element(0) \o OP_TOALTSTACK
      \o Fq_is_zero_keep_element(1) \o OP_FROMALTSTACK \o OP_BOOLAND

G1_drop == Fq_drop \o Fq_drop

(* faulty variant: the element width left out of the depth *)
G1_roll_short(a) == Fq_roll(2 * a) \o Fq_roll(2 * a)

G1_roll(a) == Fq_roll(2 * a + 1) \o Fq_roll(2 * a + 1)

G1_equalverify == Fq_roll(2) \o Fq_equalverify(1, 0) \o Fq_equalverify(1, 0)

---------------------------------------------------------------------------
(* Point-Law Verifier                                                      *)

(* a generator that aborts (unwrap of a missing inverse, a failed assert) *)
Panic == [panic |-> TRUE, script |-> <<>>, hints |-> <<>>]

(* faulty variant: y' = alpha * x' - (-bias), the last subtraction reversed *)
hinted_add_reversed(tx, qx, alpha) ==
    LET var1 == FSquare(alpha)
        var2 == FSub(FSub(var1, qx), tx)
        s1 == Fq_hinted_square(alpha)
        m2 == Fq_hinted_mul(2, alpha, 0, var2)
    IN [script |-> Fq_add(1, 0) \o Fq_roll(2) \o Fq_copy(0) \o s1.script
                     \o Fq_sub(0, 2) \o Fq_copy(0) \o m2.script \o Fq_sub(0, 2),
        hints |-> s1.hints \o m2.hints]

hinted_add(tx, qx, alpha) ==
    LET var1 == FSquare(alpha)
        var2 == FSub(FSub(var1, qx), tx)
        s1 == Fq_hinted_square(alpha)
        m2 == Fq_hinted_mul(2, alpha, 0, var2)
    IN [script |-> Fq_add(1, 0) \o Fq_roll(2) \o Fq_copy(0) \o s1.script
                     \o Fq_sub(0, 2) \o Fq_copy(0) \o m2.script \o Fq_sub(2, 0),
        hints |-> s1.hints \o m2.hints]

(* faulty variant: x' = alpha^2 - T.x, the doubling of T.x left out *)
hinted_double_single_x(t, alpha) ==
    LET var1 == FSquare(alpha)
        var2 == FSub(var1, t[1])
        s1 == Fq_hinted_square(alpha)
        m2 == Fq_hinted_mul(2, alpha, 0, var2)
    IN [script |-> Fq_roll(2) \o Fq_copy(0) \o s1.script
                     \o Fq_sub(0, 2) \o Fq_copy(0) \o m2.script \o Fq_sub(2, 0),
        hints |-> s1.hints \o m2.hints]

hinted_double(t, alpha) ==
    LET var1 == FSquare(alpha)
        var2 == FSub(FSub(var1, t[1]), t[1])
        s1 == Fq_hinted_square(alpha)
        m2 == Fq_hinted_mul(2, alpha, 0, var2)
    IN [script |-> Fq_double(0) \o Fq_roll(2) \o Fq_copy(0) \o s1.script
                     \o Fq_sub(0, 2) \o Fq_copy(0) \o m2.script \o Fq_sub(2, 0),
        hints |-> s1.hints \o m2.hints]

(* faulty variant: the boolean of the chord check dropped instead of verified *)
hinted_check_add_no_verify(t, q, cf) ==
    IF ~IsZero(t) /\ ~IsZero(q) /\ FSub(t[1], q[1]) = 0 THEN Panic
    ELSE
    LET general == ~IsZero(t) /\ ~IsZero(q)
        alpha == IF general THEN FDiv(FSub(t[2], q[2]), FSub(t[1], q[1])) ELSE 0
        bias == IF general THEN FSub(t[2], FMul(alpha, t[1])) ELSE 0
        h1 == hinted_check_chord_line(t, q, cf)
        h2 == hinted_add(t[1], q[1], cf)
    IN [panic |-> FALSE,
        script |->
            G1_is_zero_keep_element
            \o OP_IF
                \o G1_drop
            \o OP_ELSE
                \o G1_roll(1)
                \o G1_is_zero_keep_element
                \o OP_IF
                    \o G1_drop
                \o OP_ELSE
                    \o OP_DEPTH_OP_1SUB_OP_ROLL
                    \o OP_DEPTH_OP_1SUB_OP_ROLL
                    \o Fq_copy(1) \o Fq_copy(1)
                    \o Fq_copy(5) \o Fq_roll(5)
                    \o Fq_copy(8) \o Fq_roll(8)
                    \o h1.script
                    \o Fq_drop
                    \o Fq_roll(2) \o Fq_roll(3)
                    \o h2.script
                \o OP_ENDIF
            \o OP_ENDIF,
        hints |-> IF general
                  THEN <<alpha, FNeg(bias)>> \o h1.hints \o h2.hints
                  ELSE <<>>]

(* faulty variant: the slope pushed as a hint is the coefficient argument *)
hinted_check_add_supplied_alpha(t, q, cf) ==
    IF ~IsZero(t) /\ ~IsZero(q) /\ FSub(t[1], q[1]) = 0 THEN Panic
    ELSE
    LET general == ~IsZero(t) /\ ~IsZero(q)
        alpha == IF general THEN FDiv(FSub(t[2], q[2]), FSub(t[1], q[1])) ELSE 0
        bias == IF general THEN FSub(t[2], FMul(alpha, t[1])) ELSE 0
        h1 == hinted_check_chord_line(t, q, cf)
        h2 == hinted_add(t[1], q[1], cf)
    IN [panic |-> FALSE,
        script |->
            G1_is_zero_keep_element
            \o OP_IF
                \o G1_drop
            \o OP_ELSE
                \o G1_roll(1)
                \o G1_is_zero_keep_element
                \o OP_IF
                    \o G1_drop
                \o OP_ELSE
                    \o OP_DEPTH_OP_1SUB_OP_ROLL
                    \o OP_DEPTH_OP_1SUB_OP_ROLL
                    \o Fq_copy(1) \o Fq_copy(1)
                    \o Fq_copy(5) \o Fq_roll(5)
                    \o Fq_copy(8) \o Fq_roll(8)
                    \o h1.script
                    \o OP_VERIFY
                    \o Fq_roll(2) \o Fq_roll(3)
                    \o h2.script
                \o OP_ENDIF
            \o OP_ENDIF,
        hints |-> IF general
                  THEN <<cf, FNeg(bias)>> \o h1.hints \o h2.hints
                  ELSE <<>>]

(* the division (t.y - q.y) / (t.x - q.x) aborts on a zero denominator *)
hinted_check_add(t, q, cf) ==
    IF ~IsZero(t) /\ ~IsZero(q) /\ FSub(t[1], q[1]) = 0 THEN Panic
    ELSE
    LET general == ~IsZero(t) /\ ~IsZero(q)
        alpha == IF general THEN FDiv(FSub(t[2], q[2]), FSub(t[1], q[1])) ELSE 0
        bias == IF general THEN FSub(t[2], FMul(alpha, t[1])) ELSE 0
        h1 == hinted_check_chord_line(t, q, cf)
        h2 == hinted_add(t[1], q[1], cf)
    IN [panic |-> FALSE,
        script |->
            G1_is_zero_keep_element
            \o OP_IF
                \o G1_drop
            \o OP_ELSE
                \o G1_roll(1)
                \o G1_is_zero_keep_element
                \o OP_IF
                    \o G1_drop
                \o OP_ELSE
                    \o OP_DEPTH_OP_1SUB_OP_ROLL
                    \o OP_DEPTH_OP_1SUB_OP_ROLL
                    \o Fq_copy(1) \o Fq_copy(1)
                    \o Fq_copy(5) \o Fq_roll(5)
                    \o Fq_copy(8) \o Fq_roll(8)
                    \o h1.script
                    \o OP_VERIFY
                    \o Fq_roll(2) \o Fq_roll(3)
                    \o h2.script
                \o OP_ENDIF
            \o OP_ENDIF,
        hints |-> IF general
                  THEN <<alpha, FNeg(bias)>> \o h1.hints \o h2.hints
                  ELSE <<>>]

(* faulty variant: the hints of the general branch returned for the identity too *)
hinted_check_double_always_hints(t) ==
    IF ~IsZero(t) /\ FAdd(t[2], t[2]) = 0 THEN Panic
    ELSE
    LET alpha == IF IsZero(t) THEN 0
                 ELSE FDiv(FAdd(FAdd(FSquare(t[1]), FSquare(t[1])), FSquare(t[1])),
                           FAdd(t[2], t[2]))
        bias == IF IsZero(t) THEN 0 ELSE FSub(t[2], FMul(alpha, t[1]))
        h1 == hinted_check_tangent_line(t, alpha)
        h2 == hinted_double(t, alpha)
    IN [panic |-> FALSE,
        script |->
            G1_is_zero_keep_element
            \o OP_NOTIF
                \o OP_DEPTH_OP_1SUB_OP_ROLL
                \o OP_DEPTH_OP_1SUB_OP_ROLL
                \o Fq_copy(1) \o Fq_copy(1)
                \o Fq_copy(5) \o Fq_roll(5)
                \o h1.script
                \o OP_VERIFY
                \o Fq_roll(2)
                \o h2.script
            \o OP_ENDIF,
        hints |-> <<alpha, FNeg(bias)>> \o h1.hints \o h2.hints]

(* faulty variant: the pair returned as (-bias, alpha) *)
hinted_check_double_pair_swapped(t) ==
    IF ~IsZero(t) /\ FAdd(t[2], t[2]) = 0 THEN Panic
    ELSE
    LET alpha == IF IsZero(t) THEN 0
                 ELSE FDiv(FAdd(FAdd(FSquare(t[1]), FSquare(t[1])), FSquare(t[1])),
                           FAdd(t[2], t[2]))
        bias == IF IsZero(t) THEN 0 ELSE FSub(t[2], FMul(alpha, t[1]))
        h1 == hinted_check_tangent_line(t, alpha)
        h2 == hinted_double(t, alpha)
    IN [panic |-> FALSE,
        script |->
            G1_is_zero_keep_element
            \o OP_NOTIF
                \o OP_DEPTH_OP_1SUB_OP_ROLL
                \o OP_DEPTH_OP_1SUB_OP_ROLL
                \o Fq_copy(1) \o Fq_copy(1)
                \o Fq_copy(5) \o Fq_roll(5)
                \o h1.script
                \o OP_VERIFY
                \o Fq_roll(2)
                \o h2.script
            \o OP_ENDIF,
        hints |-> IF ~IsZero(t)
                  THEN <<FNeg(bias), alpha>> \o h1.hints \o h2.hints
                  ELSE <<>>]

(* the division 3 t.x^2 / (2 t.y) aborts on a zero denominator *)
hinted_check_double(t) ==
    IF ~IsZero(t) /\ FAdd(t[2], t[2]) = 0 THEN Panic
    ELSE
    LET alpha == IF IsZero(t) THEN 0
                 ELSE FDiv(FAdd(FAdd(FSquare(t[1]), FSquare(t[1])), FSquare(t[1])),
                           FAdd(t[2], t[2]))
        bias == IF IsZero(t) THEN 0 ELSE FSub(t[2], FMul(alpha, t[1]))
        h1 == hinted_check_tangent_line(t, alpha)
        h2 == hinted_double(t, alpha)
    IN [panic |-> FALSE,
        script |->
            G1_is_zero_keep_element
            \o OP_NOTIF
                \o OP_DEPTH_OP_1SUB_OP_ROLL
                \o OP_DEPTH_OP_1SUB_OP_ROLL
                \o Fq_copy(1) \o Fq_copy(1)
                \o Fq_copy(5) \o Fq_roll(5)
                \o h1.script
                \o OP_VERIFY
                \o Fq_roll(2)
                \o h2.script
            \o OP_ENDIF,
        hints |-> IF ~IsZero(t)
                  THEN <<alpha, FNeg(bias)>> \o h1.hints \o h2.hints
                  ELSE <<>>]

---------------------------------------------------------------------------
(* Windowed Scalar Multiplier                                              *)

(* faulty variant: the two branches of every bit exchanged *)
RECURSIVE dfs_with_constant_mul_flipped(_, _, _, _)
dfs_with_constant_mul_flipped(index, depth, mask, table) ==
    IF depth = 0
    THEN OP_IF
             \o (IF mask = 0 THEN G1_push_zero ELSE G1_push(table[mask]))
         \o OP_ELSE
             \o G1_push(table[mask + 2 ^ index])
         \o OP_ENDIF
    ELSE OP_IF
             \o dfs_with_constant_mul_flipped(index + 1, depth - 1, mask, table)
         \o OP_ELSE
             \o dfs_with_constant_mul_flipped(index + 1, depth - 1, mask + 2 ^ index, table)
         \o OP_ENDIF

RECURSIVE dfs_with_constant_mul(_, _, _, _)
dfs_with_constant_mul(index, depth, mask, table) ==
    IF depth = 0
    THEN OP_IF
             \o G1_push(table[mask + 2 ^ index])
         \o OP_ELSE
             \o (IF mask = 0 THEN G1_push_zero ELSE G1_push(table[mask]))
         \o OP_ENDIF
    ELSE OP_IF
             \o dfs_with_constant_mul(index + 1, depth - 1, mask + 2 ^ index, table)
         \o OP_ELSE
             \o dfs_with_constant_mul(index + 1, depth - 1, mask, table)
         \o OP_ENDIF

(* faulty variant: the table started with the base point instead of the identity *)
LookupTable_shifted(pt, width) ==
    LET f[j \in 0 .. (2 ^ width - 1)] == IF j = 0 THEN pt ELSE PointAdd(f[j - 1], pt)
    IN f

(* precomputed lookup table (affine): p_mul[j] = p_mul[j-1] + p *)
LookupTable(pt, width) ==
    LET f[j \in 0 .. (2 ^ width - 1)] == IF j = 0 THEN Zero ELSE PointAdd(f[j - 1], pt)
    IN f

Min(a, b) == IF a < b THEN a ELSE b

WindowDepth(off, width) == Min(N_BITS - off, width)

(* for j in 0..depth { mask *= 2; mask += bit(N_BITS - i - j - 1) } *)
RECURSIVE MaskLoop(_, _, _, _, _)
MaskLoop(k, off, depth, j, mask) ==
    IF j = depth THEN mask
    ELSE MaskLoop(k, off, depth, j + 1, 2 * mask + get_bit(k, N_BITS - off - j - 1))

WindowMask(k, off, depth) == MaskLoop(k, off, depth, 0, 0)

(* faulty variant: one bit of the window left on the alt stack *)
SqueezeBucket_short(depth) == [k \in 1 .. (depth - 1) |-> OP_FROMALTSTACK[1]]

(* for _ in 0..depth { OP_FROMALTSTACK } *)
SqueezeBucket(depth) == [k \in 1 .. depth |-> OP_FROMALTSTACK[1]]

RECURSIVE Flatten(_)
Flatten(scripts) ==
    IF scripts = <<>> THEN <<>> ELSE Head(scripts) \o Flatten(Tail(scripts))

---------------------------------------------------------------------------
(* Evaluation-Point Encoder                                                *)

(* faulty variant: the negation of x left out *)
hinted_x_from_eval_point_no_neg(pt, py_inv) ==
    LET m1 == Fq_hinted_mul(1, pt[2], 0, py_inv)
        m2 == Fq_hinted_mul(1, py_inv, 0, pt[1])
    IN [script |-> Fq_copy(2) \o m1.script \o Fq_push_one \o Fq_equalverify(1, 0)
                     \o m2.script,
        hints |-> m1.hints \o m2.hints]

hinted_x_from_eval_point(pt, py_inv) ==
    LET m1 == Fq_hinted_mul(1, pt[2], 0, py_inv)
        m2 == Fq_hinted_mul(1, py_inv, 0, FNeg(pt[1]))
    IN [script |-> Fq_copy(2) \o m1.script \o Fq_push_one \o Fq_equalverify(1, 0)
                     \o Fq_neg(0) \o m2.script,
        hints |-> m1.hints \o m2.hints]

(* faulty variant: the product dropped instead of compared with one *)
hinted_y_from_eval_point_unchecked(py, py_inv) ==
    LET m1 == Fq_hinted_mul(1, py_inv, 0, py)
    IN [script |-> m1.script \o Fq_drop,
        hints |-> m1.hints]

hinted_y_from_eval_point(py, py_inv) ==
    LET m1 == Fq_hinted_mul(1, py_inv, 0, py)
    IN [script |-> m1.script \o Fq_push_one \o Fq_equalverify(1, 0),
        hints |-> m1.hints]

(* pt.y().unwrap().inverse().unwrap() aborts for the identity and for pt.y = 0 *)
hinted_from_eval_point(pt) ==
    IF IsZero(pt) \/ pt[2] = 0 THEN Panic
    ELSE
    LET py_inv == FInv(pt[2])
        h1 == hinted_y_from_eval_point(pt[2], py_inv)
        h2 == hinted_x_from_eval_point(pt, py_inv)
    IN [panic |-> FALSE,
        script |-> Fq_copy(2) \o Fq_copy(1) \o h1.script
                     \o Fq_copy(2) \o Fq_toaltstack \o h2.script \o Fq_fromaltstack,
        hints |-> h1.hints \o h2.hints]

---------------------------------------------------------------------------
(* The stack machine                                                       *)

(* the scalar on top of the stack to its bits on the alt stack, least
   significant bit first, so that the most significant bit is popped first *)
Fr_convert_to_le_bits_toaltstack == << <<"Fr_convert_to_le_bits_toaltstack", 0, 0>> >>

MoveOps == {"Fq_copy", "Fq_roll", "Fq_drop", "Fq_push"}
ArithOps == {"Fq_add", "Fq_sub", "Fq_double", "Fq_neg"}
TestOps == {"Fq_equal", "Fq_is_zero", "Fq_is_zero_keep_element", "OP_BOOLAND"}
VerifyOps == {"OP_VERIFY", "Fq_equalverify"}
HintedOps == {"Fq_hinted_mul", "Fq_hinted_square"}
AltOps == {"OP_TOALTSTACK", "OP_FROMALTSTACK"}
BranchOps == {"OP_IF", "OP_NOTIF", "OP_ELSE", "OP_ENDIF"}
FetchOps == {"OP_DEPTH_OP_1SUB_OP_ROLL"}

Running == phase = "run" /\ pc <= Len(script)

CurOp == script[pc]

(* an opcode outside a branch not taken is executed *)
Executing == \A k \in 1 .. Len(cond) : cond[k]

Need(n) == Len(stack) >= n

Ok(s, a, u) == [ok |-> TRUE, stack |-> s, alt |-> a, used |-> u]

Bad == [ok |-> FALSE, stack |-> stack, alt |-> alt, used |-> used]

MoveResult(op) ==
    CASE op[1] = "Fq_copy" ->
            IF Need(op[2] + 1) THEN Ok(Append(stack, At(stack, op[2])), alt, used) ELSE Bad
      [] op[1] = "Fq_roll" ->
            IF Need(op[2] + 1)
            THEN Ok(Append(Remove(stack, op[2]), At(stack, op[2])), alt, used) ELSE Bad
      [] op[1] = "Fq_drop" ->
            IF Need(1) THEN Ok(Remove(stack, 0), alt, used) ELSE Bad
      [] op[1] = "Fq_push" -> Ok(Append(stack, op[2]), alt, used)

ArithResult(op) ==
    CASE op[1] = "Fq_add" ->
            IF Need(op[2] + 1) /\ Need(op[3] + 1)
            THEN Ok(Append(Remove2(stack, op[2], op[3]),
                           FAdd(At(stack, op[2]), At(stack, op[3]))), alt, used)
            ELSE Bad
      [] op[1] = "Fq_sub" ->
            IF Need(op[2] + 1) /\ Need(op[3] + 1)
            THEN Ok(Append(Remove2(stack, op[2], op[3]),
                           FSub(At(stack, op[2]), At(stack, op[3]))), alt, used)
            ELSE Bad
      [] op[1] = "Fq_double" ->
            IF Need(op[2] + 1)
            THEN Ok(Append(Remove(stack, op[2]), FAdd(At(stack, op[2]), At(stack, op[2]))),
                    alt, used)
            ELSE Bad
      [] op[1] = "Fq_neg" ->
            IF Need(op[2] + 1)
            THEN Ok(Append(Remove(stack, op[2]), FNeg(At(stack, op[2]))), alt, used)
            ELSE Bad

TestResult(op) ==
    CASE op[1] = "Fq_equal" ->
            IF Need(op[2] + 1) /\ Need(op[3] + 1)
            THEN Ok(Append(Remove2(stack, op[2], op[3]),
                           Bool(At(stack, op[2]) = At(stack, op[3]))), alt, used)
            ELSE Bad
      [] op[1] = "Fq_is_zero" ->
            IF Need(op[2] + 1)
            THEN Ok(Append(Remove(stack, op[2]), Bool(At(stack, op[2]) = 0)), alt, used)
            ELSE Bad
      [] op[1] = "Fq_is_zero_keep_element" ->
            IF Need(op[2] + 1)
            THEN Ok(Append(stack, Bool(At(stack, op[2]) = 0)), alt, used)
            ELSE Bad
      [] op[1] = "OP_BOOLAND" ->
            IF Need(2)
            THEN Ok(Append(Remove2(stack, 0, 1),
                           Bool(At(stack, 0) # 0 /\ At(stack, 1) # 0)), alt, used)
            ELSE Bad

VerifyResult(op) ==
    CASE op[1] = "OP_VERIFY" ->
            IF Need(1) /\ At(stack, 0) # 0 THEN Ok(Remove(stack, 0), alt, used) ELSE Bad
      [] op[1] = "Fq_equalverify" ->
            IF Need(op[2] + 1) /\ Need(op[3] + 1) /\ At(stack, op[2]) = At(stack, op[3])
            THEN Ok(Remove2(stack, op[2], op[3]), alt, used)
            ELSE Bad

(* the hint is taken from the bottom of the stack and checked against the operands *)
HintedResult(op) ==
    LET da == op[2]
        db == IF op[1] = "Fq_hinted_square" THEN op[2] ELSE op[3]
        n == IF da > db THEN da ELSE db
    IN IF ~Need(n + 2) THEN Bad
       ELSE LET h == stack[1]
                s == Tail(stack)
                a == At(s, da)
                b == At(s, db)
                r == IF da = db THEN Remove(s, da) ELSE Remove2(s, da, db)
            IN IF h = MulQuotient(a, b)
               THEN Ok(Append(r, FMul(a, b)), alt, Append(used, h))
               ELSE Bad

AltResult(op) ==
    CASE op[1] = "OP_TOALTSTACK" ->
            IF Need(1) THEN Ok(Remove(stack, 0), Append(alt, At(stack, 0)), used) ELSE Bad
      [] op[1] = "OP_FROMALTSTACK" ->
            IF Len(alt) >= 1
            THEN Ok(Append(stack, At(alt, 0)), Remove(alt, 0), used) ELSE Bad

FetchResult(op) ==
    IF Need(1) THEN Ok(Append(Tail(stack), stack[1]), alt, Append(used, stack[1])) ELSE Bad

Apply(r) ==
    IF r.ok
    THEN /\ stack' = r.stack
         /\ alt' = r.alt
         /\ used' = r.used
         /\ pc' = pc + 1
         /\ UNCHANGED <<phase, failOp, cond, static>>
    ELSE /\ phase' = "failed"
         /\ failOp' = CurOp[1]
         /\ UNCHANGED <<stack, alt, used, pc, cond, static>>

ExecMove == Running /\ Executing /\ CurOp[1] \in MoveOps /\ Apply(MoveResult(CurOp))
ExecArith == Running /\ Executing /\ CurOp[1] \in ArithOps /\ Apply(ArithResult(CurOp))
ExecTest == Running /\ Executing /\ CurOp[1] \in TestOps /\ Apply(TestResult(CurOp))
ExecVerify == Running /\ Executing /\ CurOp[1] \in VerifyOps /\ Apply(VerifyResult(CurOp))
ExecHinted == Running /\ Executing /\ CurOp[1] \in HintedOps /\ Apply(HintedResult(CurOp))
ExecAlt == Running /\ Executing /\ CurOp[1] \in AltOps /\ Apply(AltResult(CurOp))
ExecFetch == Running /\ Executing /\ CurOp[1] \in FetchOps /\ Apply(FetchResult(CurOp))

BitsResult(op) ==
    IF Need(1) /\ At(stack, 0) < 2 ^ N_BITS
    THEN Ok(Remove(stack, 0),
            alt \o [k \in 1 .. N_BITS |-> get_bit(At(stack, 0), k - 1)], used)
    ELSE Bad

ExecBits ==
    /\ Running /\ Executing /\ CurOp[1] = "Fr_convert_to_le_bits_toaltstack"
    /\ Apply(BitsResult(CurOp))

(* OP_IF / OP_NOTIF / OP_ELSE / OP_ENDIF are processed in skipped branches too *)
ExecBranch ==
    /\ Running
    /\ CurOp[1] \in BranchOps
    /\ IF CurOp[1] \in {"OP_IF", "OP_NOTIF"}
       THEN IF ~Executing
            THEN /\ cond' = Append(cond, FALSE)
                 /\ pc' = pc + 1
                 /\ UNCHANGED <<stack, alt, used, phase, failOp, static>>
            ELSE IF ~Need(1)
            THEN /\ phase' = "failed"
                 /\ failOp' = CurOp[1]
                 /\ UNCHANGED <<stack, alt, used, pc, cond, static>>
            ELSE /\ cond' = Append(cond, (At(stack, 0) # 0) = (CurOp[1] = "OP_IF"))
                 /\ stack' = Remove(stack, 0)
                 /\ pc' = pc + 1
                 /\ UNCHANGED <<alt, used, phase, failOp, static>>
       ELSE IF Len(cond) = 0
            THEN /\ phase' = "failed"
                 /\ failOp' = CurOp[1]
                 /\ UNCHANGED <<stack, alt, used, pc, cond, static>>
            ELSE /\ cond' = IF CurOp[1] = "OP_ELSE"
                            THEN Append(Remove(cond, 0), ~At(cond, 0))
                            ELSE Remove(cond, 0)
                 /\ pc' = pc + 1
                 /\ UNCHANGED <<stack, alt, used, phase, failOp, static>>

SkipOp ==
    /\ Running
    /\ ~Executing
    /\ CurOp[1] \notin BranchOps
    /\ pc' = pc + 1
    /\ UNCHANGED <<stack, alt, used, phase, failOp, cond, static>>

Finish ==
    /\ phase = "run"
    /\ pc = Len(script) + 1
    /\ phase' = "done"
    /\ UNCHANGED <<stack, alt, used, pc, failOp, cond, static>>

(* the harness of the tests: hints pushed in order, then the inputs; a     *)
(* generator that aborts returns no script                                 *)
Load(gen, pushed, inputs) ==
    IF gen.panic
    THEN /\ phase' = "panic"
         /\ UNCHANGED <<static, pc, stack, alt, cond, failOp, used>>
    ELSE /\ script' = gen.script
         /\ hints' = gen.hints
         /\ stack' = pushed \o rest \o inputs
         /\ phase' = "run"
         /\ UNCHANGED <<mode, T, Q, c3, c4, rest, prover,
                        forged, witness, recovered, pc, alt, cond, failOp,
                        used, bvars>>

NoPanic(gen) == [panic |-> FALSE, script |-> gen.script, hints |-> gen.hints]

IdleMachine(m) ==
    /\ mode = m
    /\ phase = "gen"
    /\ script = <<>> /\ hints = <<>> /\ pc = 1 /\ stack = <<>> /\ alt = <<>>
    /\ cond = <<>> /\ failOp = "" /\ used = <<>>
    /\ forged = [list |-> "none", at |-> 0]
    /\ witness = <<>> /\ recovered = <<>>

Idle(m) ==
    /\ IdleMachine(m)
    /\ scalar = 0 /\ i_step = 0 /\ p = Zero /\ p_mul = <<>> /\ c = Zero /\ i = 0
    /\ dbl = 0 /\ coeff = <<>> /\ step_p = <<>> /\ trace = <<>>
    /\ coeff_iter = 0 /\ step_p_iter = 0 /\ trace_iter = 0
    /\ loop_scripts = <<>> /\ marks = <<>>

(* hints of later fragments: up to MaxRest elements above this fragment's own *)
MaxRest == 1

RestChoices == {[k \in 1 .. n |-> FieldPrime - 1] : n \in 0 .. MaxRest}

---------------------------------------------------------------------------
(* check_line_through_point on (alpha, -bias, x, y)                        *)

InitLine ==
    /\ Idle("line")
    /\ T \in Fq \X Fq /\ Q = Zero /\ c3 \in Fq /\ c4 \in Fq
    /\ rest = <<>> /\ prover = FALSE

GenLine ==
    /\ mode = "line" /\ phase = "gen"
    /\ LET g == NoPanic(hinted_check_line_through_point(T[1], c3))
       IN Load(g, g.hints, <<c3, c4, T[1], T[2]>>)

NextLine == GenLine \/ ExecHinted \/ ExecArith \/ ExecMove \/ ExecTest \/ Finish

SpecLine == InitLine /\ [][NextLine]_vars

---------------------------------------------------------------------------
(* check_chord_line on (alpha, -bias, T.x, T.y, Q.x, Q.y)                  *)

InitChord ==
    /\ Idle("chord")
    /\ T \in FinitePoints /\ Q \in FinitePoints /\ c3 \in Fq /\ c4 \in Fq
    /\ rest = <<>> /\ prover = FALSE

GenChord ==
    /\ mode = "chord" /\ phase = "gen"
    /\ LET g == NoPanic(hinted_check_chord_line(T, Q, c3))
       IN Load(g, g.hints, <<c3, c4, T[1], T[2], Q[1], Q[2]>>)

NextChord ==
    GenChord \/ ExecHinted \/ ExecArith \/ ExecMove \/ ExecTest \/ ExecAlt \/ Finish

SpecChord == InitChord /\ [][NextChord]_vars

---------------------------------------------------------------------------
(* check_tangent_line on (alpha, -bias, T.x, T.y)                          *)

InitTangent ==
    /\ Idle("tangent")
    /\ T \in FinitePoints /\ Q = Zero /\ c3 \in Fq /\ c4 \in Fq
    /\ rest = <<>> /\ prover = FALSE

GenTangent ==
    /\ mode = "tangent" /\ phase = "gen"
    /\ LET g == NoPanic(hinted_check_tangent_line(T, c3))
       IN Load(g, g.hints, <<c3, c4, T[1], T[2]>>)

NextTangent ==
    GenTangent \/ ExecHinted \/ ExecArith \/ ExecMove \/ ExecTest \/ ExecAlt \/ Finish

SpecTangent == InitTangent /\ [][NextTangent]_vars

---------------------------------------------------------------------------
(* check_add on (hints, T, Q)                                              *)

(* the chord through T and Q, T.x # Q.x *)
ChordAlpha(t, q) == FDiv(FSub(t[2], q[2]), FSub(t[1], q[1]))

(* the tangent at T, T.y # 0 *)
TangentAlpha(t) == FDiv(FMul(3, FSquare(t[1])), FMul(2, t[2]))

NegBias(t, alpha) == FSub(FMul(alpha, t[1]), t[2])

(* the generator's own hints: every point pair, every coefficient argument *)
InitAdd ==
    /\ Idle("add")
    /\ T \in Points /\ Q \in Points /\ c3 \in Fq /\ c4 = 0
    /\ rest \in RestChoices /\ prover = FALSE

(* a prover's hints: any coefficient pair, the multiplication hints made for it *)
InitAddProver ==
    /\ Idle("add")
    /\ T \in FinitePoints /\ Q \in FinitePoints /\ c3 \in Fq /\ c4 \in Fq
    /\ rest = <<>> /\ prover = TRUE

(* the script is the same for every argument; the prover's stack may hold  *)
(* points (T.x = Q.x) for which the generator itself would abort           *)
GenAdd ==
    /\ mode = "add" /\ phase = "gen"
    /\ IF prover
       THEN LET g == hinted_check_add(Zero, Zero, c3)
                pushed == <<c3, c4>> \o hinted_check_chord_line(T, Q, c3).hints
                                    \o hinted_add(T[1], Q[1], c3).hints
            IN Load(g, pushed, <<T[1], T[2], Q[1], Q[2]>>)
       ELSE LET g == hinted_check_add(T, Q, c3)
            IN Load(g, g.hints, <<T[1], T[2], Q[1], Q[2]>>)

NextAdd ==
    \/ GenAdd \/ ExecHinted \/ ExecArith \/ ExecMove \/ ExecTest \/ ExecAlt
    \/ ExecFetch \/ ExecVerify \/ ExecBranch \/ SkipOp \/ Finish

SpecAdd == InitAdd /\ [][NextAdd]_vars

SpecAddProver == InitAddProver /\ [][NextAdd]_vars

---------------------------------------------------------------------------
(* check_double on (hints, T)                                              *)

InitDouble ==
    /\ Idle("double")
    /\ T \in Points /\ Q = Zero /\ c3 = 0 /\ c4 = 0
    /\ rest \in RestChoices /\ prover = FALSE

InitDoubleProver ==
    /\ Idle("double")
    /\ T \in FinitePoints /\ Q = Zero /\ c3 \in Fq /\ c4 \in Fq
    /\ rest = <<>> /\ prover = TRUE

GenDouble ==
    /\ mode = "double" /\ phase = "gen"
    /\ LET g == hinted_check_double(T)
       IN IF prover
          THEN Load(g, <<c3, c4>> \o hinted_check_tangent_line(T, c3).hints
                                 \o hinted_double(T, c3).hints,
                    <<T[1], T[2]>>)
          ELSE Load(g, g.hints, <<T[1], T[2]>>)

NextDouble ==
    \/ GenDouble \/ ExecHinted \/ ExecArith \/ ExecMove \/ ExecTest \/ ExecAlt
    \/ ExecFetch \/ ExecVerify \/ ExecBranch \/ SkipOp \/ Finish

SpecDouble == (InitDouble \/ InitDoubleProver) /\ [][NextDouble]_vars

---------------------------------------------------------------------------
(* from_eval_point on (hints, y_inv, P.x, P.y); c3 is the y_inv pushed     *)

InitEval ==
    /\ Idle("eval")
    /\ T \in FinitePoints /\ Q = Zero /\ c3 \in Fq /\ c4 = 0
    /\ rest \in RestChoices /\ prover \in BOOLEAN

GenEval ==
    /\ mode = "eval" /\ phase = "gen"
    /\ LET g == hinted_from_eval_point(T)
       IN IF prover
          THEN Load(g, hinted_y_from_eval_point(T[2], c3).hints
                         \o hinted_x_from_eval_point(T, c3).hints,
                    <<c3, T[1], T[2]>>)
          ELSE Load(g, g.hints, <<c3, T[1], T[2]>>)

NextEval ==
    GenEval \/ ExecHinted \/ ExecArith \/ ExecMove \/ ExecVerify \/ ExecAlt \/ Finish

SpecEval == InitEval /\ [][NextEval]_vars

---------------------------------------------------------------------------
(* hinted_scalar_mul_by_constant_g1 on (hints, scalar)                     *)

(* window widths 2 .. MaxStep *)
MaxStep == 3

TangentCoeff(t) ==
    IF IsZero(t) THEN <<0, 0>> ELSE <<TangentAlpha(t), NegBias(t, TangentAlpha(t))>>

ChordCoeff(t, q) ==
    IF IsZero(t) \/ IsZero(q) \/ t[1] = q[1] THEN <<0, 0>>
    ELSE <<ChordAlpha(t, q), NegBias(t, ChordAlpha(t, q))>>

(* the windowing trace of the precomputation for one base point: per
   doubling a coefficient, a step point and the point after it; per add a
   coefficient and the point after it; for the first window the point *)
RECURSIVE prepare_msm_input(_, _, _, _, _)
prepare_msm_input(k, pt, width, off, acc) ==
    IF off >= N_BITS
    THEN [coeff |-> <<>>, step_p |-> <<>>, trace |-> <<>>]
    ELSE LET depth == WindowDepth(off, width)
             n == IF off > 0 THEN depth ELSE 0
             before(j) == PointMul(2 ^ (j - 1), acc)
             doubled == PointMul(2 ^ n, acc)
             q == LookupTable(pt, width)[WindowMask(k, off, depth)]
             sum == PointAdd(doubled, q)
             next == prepare_msm_input(k, pt, width, off + width, sum)
         IN [coeff |-> [j \in 1 .. n |-> TangentCoeff(before(j))]
                         \o (IF off > 0 THEN <<ChordCoeff(doubled, q)>> ELSE <<>>)
                         \o next.coeff,
             step_p |-> [j \in 1 .. n |-> before(j)] \o next.step_p,
             trace |-> [j \in 1 .. n |-> PointMul(2 ^ j, acc)] \o <<sum>> \o next.trace]

(* a list one entry short, exact, or one entry long *)
Resize(list, d, filler) ==
    IF d < 0 THEN (IF list = <<>> THEN list ELSE SubSeq(list, 1, Len(list) - 1))
    ELSE IF d > 0 THEN Append(list, filler)
    ELSE list

(* the lists as the precomputation returns them, or each one entry off *)
InitMulWith(deltas) ==
    /\ IdleMachine("mul")
    /\ Q = Zero /\ c3 = 0 /\ c4 = 0 /\ prover = FALSE
    /\ rest \in RestChoices
    /\ scalar \in Fr
    /\ p \in FinitePoints
    /\ T = p
    /\ i_step \in 2 .. MaxStep
    /\ \E honest \in {prepare_msm_input(scalar, p, i_step, 0, Zero)} :
          \E dc \in deltas, ds \in deltas, dt \in deltas :
             /\ coeff = Resize(honest.coeff, dc, <<0, 0>>)
             /\ step_p = Resize(honest.step_p, ds, Zero)
             /\ trace = Resize(honest.trace, dt, Zero)
    /\ coeff_iter = 0 /\ step_p_iter = 0 /\ trace_iter = 0
    /\ p_mul = <<>> /\ c = Zero /\ i = 0 /\ dbl = 0
    /\ loop_scripts = <<>> /\ marks = <<>>

InitMul == InitMulWith({0})

InitMulLists == InitMulWith({-1, 0, 1})

Abort ==
    /\ phase' = "panic"
    /\ UNCHANGED <<mode, T, Q, c3, c4, rest, prover,
                   forged, witness, recovered, script, hints, pc, stack, alt,
                   cond, failOp, used, bvars>>

(* lines 199-217: the iterators, the lookup table, the accumulator *)
BuildStart ==
    /\ mode = "mul" /\ phase = "gen"
    /\ phase' = "build"
    /\ p_mul' = LookupTable(p, i_step)
    /\ c' = Zero
    /\ i' = 0
    /\ UNCHANGED <<mode, T, Q, c3, c4, rest, prover,
                   forged, witness, recovered, script, hints, pc, stack, alt,
                   cond, failOp, used, scalar, i_step, p, dbl, coeff, step_p, trace,
                   coeff_iter, step_p_iter, trace_iter, loop_scripts, marks>>

(* faulty variant: the accumulator not doubled after the doubling is emitted *)
BuildDouble_stale ==
    /\ mode = "mul" /\ phase = "build"
    /\ i < N_BITS /\ i > 0 /\ dbl < WindowDepth(i, i_step)
    /\ IF \/ coeff_iter >= Len(coeff)
          \/ step_p_iter >= Len(step_p)
          \/ trace_iter >= Len(trace)
          \/ hinted_check_double(c).panic
       THEN Abort
       ELSE LET g == hinted_check_double(c)
            IN /\ coeff_iter' = coeff_iter + 1
               /\ step_p_iter' = step_p_iter + 1
               /\ trace_iter' = trace_iter + 1
               /\ loop_scripts' = Append(loop_scripts, g.script)
               /\ hints' = hints \o g.hints
               /\ c' = c
               /\ dbl' = dbl + 1
               /\ marks' = Append(marks, [kind |-> "double", t |-> c, q |-> Zero,
                                          c |-> c', general |-> g.hints # <<>>,
                                          hints |-> g.hints])
               /\ UNCHANGED <<mode, phase, T, Q, c3, c4, rest, prover,
                              forged, witness, recovered, script, pc,
                              stack, alt, cond, failOp, used, scalar, i_step, p,
                              p_mul, i, coeff, step_p, trace>>

(* lines 223-231: one round of the doubling loop of a window after the first *)
BuildDouble ==
    /\ mode = "mul" /\ phase = "build"
    /\ i < N_BITS /\ i > 0 /\ dbl < WindowDepth(i, i_step)
    /\ IF \/ coeff_iter >= Len(coeff)
          \/ step_p_iter >= Len(step_p)
          \/ trace_iter >= Len(trace)
          \/ hinted_check_double(c).panic
       THEN Abort
       ELSE LET g == hinted_check_double(c)
            IN /\ coeff_iter' = coeff_iter + 1
               /\ step_p_iter' = step_p_iter + 1
               /\ trace_iter' = trace_iter + 1
               /\ loop_scripts' = Append(loop_scripts, g.script)
               /\ hints' = hints \o g.hints
               /\ c' = PointAdd(c, c)
               /\ dbl' = dbl + 1
               /\ marks' = Append(marks, [kind |-> "double", t |-> c, q |-> Zero,
                                          c |-> c', general |-> g.hints # <<>>,
                                          hints |-> g.hints])
               /\ UNCHANGED <<mode, phase, T, Q, c3, c4, rest, prover,
                              forged, witness, recovered, script, pc,
                              stack, alt, cond, failOp, used, scalar, i_step, p,
                              p_mul, i, coeff, step_p, trace>>

(* faulty variant: after an add the accumulator set to the table entry alone *)
BuildWindow_no_accumulate ==
    /\ mode = "mul" /\ phase = "build"
    /\ i < N_BITS
    /\ i = 0 \/ dbl = WindowDepth(i, i_step)
    /\ LET depth == WindowDepth(i, i_step)
           mask == WindowMask(scalar, i, depth)
           dfs == dfs_with_constant_mul(0, depth - 1, 0, p_mul)
       IN IF i = 0
          THEN IF trace_iter >= Len(trace)
               THEN Abort
               ELSE /\ trace_iter' = trace_iter + 1
                    /\ loop_scripts' = loop_scripts \o <<SqueezeBucket(depth), dfs>>
                    /\ c' = PointAdd(c, p_mul[mask])
                    /\ i' = i + i_step
                    /\ dbl' = 0
                    /\ marks' = Append(marks, [kind |-> "seed", t |-> c,
                                               q |-> p_mul[mask], c |-> c',
                                               general |-> FALSE, hints |-> <<>>])
                    /\ UNCHANGED <<mode, phase, T, Q, c3, c4, rest, prover,
                                   forged, witness, recovered, script,
                                   hints, pc, stack, alt, cond, failOp, used, scalar,
                                   i_step, p, p_mul, coeff, step_p, trace, coeff_iter,
                                   step_p_iter>>
          ELSE IF \/ coeff_iter >= Len(coeff)
                  \/ trace_iter >= Len(trace)
                  \/ hinted_check_add(c, p_mul[mask], coeff[coeff_iter + 1][1]).panic
               THEN Abort
               ELSE LET add_coeff == coeff[coeff_iter + 1]
                        g == hinted_check_add(c, p_mul[mask], add_coeff[1])
                    IN /\ coeff_iter' = coeff_iter + 1
                       /\ trace_iter' = trace_iter + 1
                       /\ loop_scripts' =
                             loop_scripts \o <<SqueezeBucket(depth), dfs \o g.script>>
                       /\ hints' = hints \o g.hints
                       /\ c' = p_mul[mask]
                       /\ i' = i + i_step
                       /\ dbl' = 0
                       /\ marks' = Append(marks, [kind |-> "add", t |-> c,
                                                  q |-> p_mul[mask], c |-> c',
                                                  general |-> g.hints # <<>>,
                                                  hints |-> g.hints])
                       /\ UNCHANGED <<mode, phase, T, Q, c3, c4, rest, prover,
                                      forged, witness, recovered, script,
                                      pc, stack, alt, cond, failOp, used, scalar,
                                      i_step, p, p_mul, coeff, step_p, trace,
                                      step_p_iter>>

(* lines 234-273: the bits of the window, the table entry, the add *)
BuildWindow ==
    /\ mode = "mul" /\ phase = "build"
    /\ i < N_BITS
    /\ i = 0 \/ dbl = WindowDepth(i, i_step)
    /\ LET depth == WindowDepth(i, i_step)
           mask == WindowMask(scalar, i, depth)
           dfs == dfs_with_constant_mul(0, depth - 1, 0, p_mul)
       IN IF i = 0
          THEN IF trace_iter >= Len(trace)
               THEN Abort
               ELSE /\ trace_iter' = trace_iter + 1
                    /\ loop_scripts' = loop_scripts \o <<SqueezeBucket(depth), dfs>>
                    /\ c' = PointAdd(c, p_mul[mask])
                    /\ i' = i + i_step
                    /\ dbl' = 0
                    /\ marks' = Append(marks, [kind |-> "seed", t |-> c,
                                               q |-> p_mul[mask], c |-> c',
                                               general |-> FALSE, hints |-> <<>>])
                    /\ UNCHANGED <<mode, phase, T, Q, c3, c4, rest, prover,
                                   forged, witness, recovered, script,
                                   hints, pc, stack, alt, cond, failOp, used, scalar,
                                   i_step, p, p_mul, coeff, step_p, trace, coeff_iter,
                                   step_p_iter>>
          ELSE IF \/ coeff_iter >= Len(coeff)
                  \/ trace_iter >= Len(trace)
                  \/ hinted_check_add(c, p_mul[mask], coeff[coeff_iter + 1][1]).panic
               THEN Abort
               ELSE LET add_coeff == coeff[coeff_iter + 1]
                        g == hinted_check_add(c, p_mul[mask], add_coeff[1])
                    IN /\ coeff_iter' = coeff_iter + 1
                       /\ trace_iter' = trace_iter + 1
                       /\ loop_scripts' =
                             loop_scripts \o <<SqueezeBucket(depth), dfs \o g.script>>
                       /\ hints' = hints \o g.hints
                       /\ c' = PointAdd(c, p_mul[mask])
                       /\ i' = i + i_step
                       /\ dbl' = 0
                       /\ marks' = Append(marks, [kind |-> "add", t |-> c,
                                                  q |-> p_mul[mask], c |-> c',
                                                  general |-> g.hints # <<>>,
                                                  hints |-> g.hints])
                       /\ UNCHANGED <<mode, phase, T, Q, c3, c4, rest, prover,
                                      forged, witness, recovered, script,
                                      pc, stack, alt, cond, failOp, used, scalar,
                                      i_step, p, p_mul, coeff, step_p, trace,
                                      step_p_iter>>

(* faulty variant: the base point argument left as the caller passed it *)
BuildFinish_no_overwrite ==
    /\ mode = "mul" /\ phase = "build"
    /\ i >= N_BITS
    /\ IF \/ coeff_iter < Len(coeff)
          \/ step_p_iter < Len(step_p)
          \/ trace_iter < Len(trace)
       THEN Abort
       ELSE /\ script' = Fr_convert_to_le_bits_toaltstack \o Flatten(loop_scripts)
            /\ stack' = hints \o rest \o <<scalar>>
            /\ phase' = "run"
            /\ UNCHANGED <<mode, T, Q, c3, c4, rest, prover,
                           forged, witness, recovered, hints, pc, alt,
                           cond, failOp, used, scalar, i_step, p, p_mul, c, i, dbl,
                           coeff, step_p, trace, coeff_iter, step_p_iter, trace_iter,
                           loop_scripts, marks>>

(* faulty variant: the three asserts left out *)
BuildFinish_unchecked ==
    /\ mode = "mul" /\ phase = "build"
    /\ i >= N_BITS
    /\ p' = c
    /\ script' = Fr_convert_to_le_bits_toaltstack \o Flatten(loop_scripts)
    /\ stack' = hints \o rest \o <<scalar>>
    /\ phase' = "run"
    /\ UNCHANGED <<mode, T, Q, c3, c4, rest, prover,
                   forged, witness, recovered, hints, pc, alt, cond,
                   failOp, used, scalar, i_step, p_mul, c, i, dbl, coeff,
                   step_p, trace, coeff_iter, step_p_iter, trace_iter,
                   loop_scripts, marks>>

(* lines 275-290: the three asserts, *p = c, the script; then the harness
   pushes the hints and the scalar *)
BuildFinish ==
    /\ mode = "mul" /\ phase = "build"
    /\ i >= N_BITS
    /\ IF \/ coeff_iter < Len(coeff)
          \/ step_p_iter < Len(step_p)
          \/ trace_iter < Len(trace)
       THEN Abort
       ELSE /\ p' = c
            /\ script' = Fr_convert_to_le_bits_toaltstack \o Flatten(loop_scripts)
            /\ stack' = hints \o rest \o <<scalar>>
            /\ phase' = "run"
            /\ UNCHANGED <<mode, T, Q, c3, c4, rest, prover,
                           forged, witness, recovered, hints, pc, alt, cond,
                           failOp, used, scalar, i_step, p_mul, c, i, dbl, coeff,
                           step_p, trace, coeff_iter, step_p_iter, trace_iter,
                           loop_scripts, marks>>

NextMul ==
    \/ BuildStart \/ BuildDouble \/ BuildWindow \/ BuildFinish
    \/ ExecBits \/ ExecHinted \/ ExecArith \/ ExecMove \/ ExecTest \/ ExecAlt
    \/ ExecFetch \/ ExecVerify \/ ExecBranch \/ SkipOp \/ Finish

SpecMul == InitMul /\ [][NextMul]_vars

(* construction alone, for every combination of list lengths *)
NextBuild == BuildStart \/ BuildDouble \/ BuildWindow \/ BuildFinish

SpecBuild == InitMulLists /\ [][NextBuild]_vars

---------------------------------------------------------------------------
(* One window of the multiplier on its own: the bits popped from the alt   *)
(* stack and dfs_with_constant_mul, for every bit string of N_BITS bits    *)

InitDfs ==
    /\ IdleMachine("dfs")
    /\ T = Zero /\ Q = Zero /\ c3 = 0 /\ c4 = 0 /\ prover = FALSE /\ rest = <<>>
    /\ scalar \in 0 .. (2 ^ N_BITS - 1)
    /\ p \in FinitePoints
    /\ i_step \in 2 .. MaxStep
    /\ i \in {off \in 0 .. (N_BITS - 1) : off % i_step = 0}
    /\ p_mul = <<>> /\ c = Zero /\ dbl = 0
    /\ coeff = <<>> /\ step_p = <<>> /\ trace = <<>>
    /\ coeff_iter = 0 /\ step_p_iter = 0 /\ trace_iter = 0
    /\ loop_scripts = <<>> /\ marks = <<>>

(* lines 208-213, 235-239 and 250-255 for the window at offset i; the alt
   stack is what Fr::convert_to_le_bits_toaltstack left less the i bits the
   earlier windows popped *)
GenDfs ==
    /\ mode = "dfs" /\ phase = "gen"
    /\ LET depth == WindowDepth(i, i_step)
           table == LookupTable(p, i_step)
       IN /\ p_mul' = table
          /\ script' = SqueezeBucket(depth) \o dfs_with_constant_mul(0, depth - 1, 0, table)
          /\ alt' = [k \in 1 .. (N_BITS - i) |-> get_bit(scalar, k - 1)]
    /\ phase' = "run"
    /\ UNCHANGED <<mode, T, Q, c3, c4, rest, prover, forged, witness, recovered,
                   hints, pc, stack, cond, failOp, used, scalar, i_step, p, c, i,
                   dbl, coeff, step_p, trace, coeff_iter, step_p_iter, trace_iter,
                   loop_scripts, marks>>

NextDfs == GenDfs \/ ExecAlt \/ ExecBranch \/ ExecMove \/ SkipOp \/ Finish

SpecDfs == InitDfs /\ [][NextDfs]_vars

---------------------------------------------------------------------------
(* hinted_scalar_mul_by_constant_g1 given lists with one wrong entry       *)

OtherFq(v) == FAdd(v, 1)

OtherPoint(pt) == IF IsZero(pt) THEN <<1, 2>> ELSE PointNeg(pt)

(* the entries of the three lists: slope and intercept of a coefficient, a
   step point, a trace point *)
ForgeChoices(lists) ==
    {[list |-> "coeff.0", at |-> k] : k \in 1 .. Len(lists.coeff)}
      \cup {[list |-> "coeff.1", at |-> k] : k \in 1 .. Len(lists.coeff)}
      \cup {[list |-> "step_p", at |-> k] : k \in 1 .. Len(lists.step_p)}
      \cup {[list |-> "trace", at |-> k] : k \in 1 .. Len(lists.trace)}

InitMulTrace ==
    /\ mode = "mul" /\ phase = "gen"
    /\ script = <<>> /\ hints = <<>> /\ pc = 1 /\ stack = <<>> /\ alt = <<>>
    /\ cond = <<>> /\ failOp = "" /\ used = <<>>
    /\ witness = <<>> /\ recovered = <<>>
    /\ Q = Zero /\ c3 = 0 /\ c4 = 0 /\ prover = FALSE
    /\ rest = <<>>
    /\ scalar \in Fr
    /\ p \in FinitePoints
    /\ T = p
    /\ i_step \in 2 .. MaxStep
    /\ \E honest \in {prepare_msm_input(scalar, p, i_step, 0, Zero)} :
          \E f \in ForgeChoices(honest) :
             /\ forged = f
             /\ coeff = CASE f.list = "coeff.0" ->
                               [honest.coeff EXCEPT ![f.at] = <<OtherFq(@[1]), @[2]>>]
                           [] f.list = "coeff.1" ->
                               [honest.coeff EXCEPT ![f.at] = <<@[1], OtherFq(@[2])>>]
                           [] OTHER -> honest.coeff
             /\ step_p = IF f.list = "step_p"
                         THEN [honest.step_p EXCEPT ![f.at] = OtherPoint(@)]
                         ELSE honest.step_p
             /\ trace = IF f.list = "trace"
                        THEN [honest.trace EXCEPT ![f.at] = OtherPoint(@)]
                        ELSE honest.trace
    /\ coeff_iter = 0 /\ step_p_iter = 0 /\ trace_iter = 0
    /\ p_mul = <<>> /\ c = Zero /\ i = 0 /\ dbl = 0
    /\ loop_scripts = <<>> /\ marks = <<>>

SpecTrace == InitMulTrace /\ [][NextMul]_vars

---------------------------------------------------------------------------
(* push and read_from_stack                                                *)

(* limbs of one field element, bits of one limb *)
N_LIMBS == 1

LIMB_SIZE == 3

(* a stack item as the interpreter returns it: the minimal little-endian
   bytes of the number, none for zero *)
ScriptNumBytes(n) == IF n = 0 THEN <<>> ELSE <<n>>

read_script_num(bytes) == IF bytes = <<>> THEN 0 ELSE bytes[1]

(* the limbs, most significant first, back to the value *)
RECURSIVE Fq_read_u32_le(_)
Fq_read_u32_le(w) ==
    IF w = <<>> THEN 0
    ELSE read_script_num(w[Len(w)])
           + (2 ^ LIMB_SIZE) * Fq_read_u32_le(SubSeq(w, 1, Len(w) - 1))

(* a point as the curve library holds it *)
G1Affine(pt) == [x |-> pt[1], y |-> pt[2], infinity |-> IsZero(pt)]

(* after assert_eq!(witness.len(), Fq::N_LIMBS * 2) *)
read_from_stack(w) ==
    [x |-> Fq_read_u32_le(SubSeq(w, 1, N_LIMBS)),
     y |-> Fq_read_u32_le(SubSeq(w, N_LIMBS + 1, 2 * N_LIMBS)),
     infinity |-> FALSE]

InitRead ==
    /\ Idle("read")
    /\ T \in Points /\ Q = Zero /\ c3 = 0 /\ c4 = 0
    /\ rest = <<>> /\ prover = FALSE

(* script! { G1Affine::push(a) } *)
GenRead ==
    /\ mode = "read" /\ phase = "gen"
    /\ Load([panic |-> FALSE, script |-> G1_push(T), hints |-> <<>>], <<>>, <<>>)

(* extract_witness_from_stack; a caller may also hand over a witness with
   an item missing or an item too many *)
ExtractWitness ==
    /\ mode = "read" /\ phase = "done"
    /\ \E d \in {-1, 0, 1} :
          witness' = Resize([k \in 1 .. Len(stack) |-> ScriptNumBytes(stack[k])],
                            d, <<>>)
    /\ phase' = "witness"
    /\ UNCHANGED <<mode, T, Q, c3, c4, rest, prover, forged, recovered, script,
                   hints, pc, stack, alt, cond, failOp, used, bvars>>

ReadFromStack ==
    /\ mode = "read" /\ phase = "witness"
    /\ IF Len(witness) # N_LIMBS * 2
       THEN /\ phase' = "panic"
            /\ UNCHANGED recovered
       ELSE /\ recovered' = <<read_from_stack(witness)>>
            /\ phase' = "read"
    /\ UNCHANGED <<mode, T, Q, c3, c4, rest, prover, forged, witness, script,
                   hints, pc, stack, alt, cond, failOp, used, bvars>>

NextRead == GenRead \/ ExecMove \/ Finish \/ ExtractWitness \/ ReadFromStack

SpecRead == InitRead /\ [][NextRead]_vars

---------------------------------------------------------------------------
(* A dishonest prover against the composed verifications                   *)

(* the prover's hints for one checked step: a coefficient pair of its own
   and the multiplication hints that go with it *)
ForgedHints(m, a, b) ==
    IF m.kind = "double"
    THEN <<a, b>> \o hinted_check_tangent_line(m.t, a).hints
                  \o hinted_double(m.t, a).hints
    ELSE <<a, b>> \o hinted_check_chord_line(m.t, m.q, a).hints
                  \o hinted_add(m.t[1], m.q[1], a).hints

(* the hint list with the hints of step k replaced *)
ForgedList(k, a, b) ==
    Flatten([j \in 1 .. Len(marks) |->
                IF j = k THEN ForgedHints(marks[j], a, b) ELSE marks[j].hints])

(* before the script of the multiplier starts the prover replaces, in the
   witness stack, the hints of one step built in its general branch *)
Forge ==
    /\ mode = "mul" /\ prover /\ phase = "run" /\ pc = 1
    /\ forged.list = "none"
    /\ \E k \in 1 .. Len(marks), a \in Fq, b \in Fq :
          /\ marks[k].general
          /\ forged' = [list |-> "hints", at |-> k]
          /\ c3' = a /\ c4' = b
          /\ stack' = ForgedList(k, a, b) \o rest \o <<scalar>>
    /\ UNCHANGED <<mode, phase, T, Q, rest, prover, witness, recovered, script,
                   hints, pc, alt, cond, failOp, used, bvars>>

(* one base point generates the whole group: with every scalar the
   accumulator and the table entries range over all points *)
BasePoint ==
    CHOOSE pt \in FinitePoints :
        \A q \in FinitePoints : pt[1] <= q[1] /\ (pt[1] = q[1] => pt[2] <= q[2])

InitMulProver ==
    /\ IdleMachine("mul")
    /\ Q = Zero /\ c3 = 0 /\ c4 = 0 /\ prover = TRUE
    /\ rest = <<>>
    /\ scalar \in Fr
    /\ p = BasePoint
    /\ T = p
    /\ i_step \in 2 .. MaxStep
    /\ \E honest \in {prepare_msm_input(scalar, p, i_step, 0, Zero)} :
          coeff = honest.coeff /\ step_p = honest.step_p /\ trace = honest.trace
    /\ coeff_iter = 0 /\ step_p_iter = 0 /\ trace_iter = 0
    /\ p_mul = <<>> /\ c = Zero /\ i = 0 /\ dbl = 0
    /\ loop_scripts = <<>> /\ marks = <<>>

InitEvalProver ==
    /\ Idle("eval")
    /\ T \in FinitePoints /\ Q = Zero /\ c3 \in Fq /\ c4 = 0
    /\ rest = <<>> /\ prover = TRUE

InitProver == InitAddProver \/ InitDoubleProver \/ InitEvalProver \/ InitMulProver

NextProver ==
    \/ GenAdd \/ GenDouble \/ GenEval
    \/ BuildStart \/ BuildDouble \/ BuildWindow \/ BuildFinish \/ Forge
    \/ ExecBits \/ ExecHinted \/ ExecArith \/ ExecMove \/ ExecTest \/ ExecAlt
    \/ ExecFetch \/ ExecVerify \/ ExecBranch \/ SkipOp \/ Finish

SpecProver == InitProver /\ [][NextProver]_vars

---------------------------------------------------------------------------
(* Every composite generator with the hints it returns                     *)

InitEvalHonest ==
    /\ Idle("eval")
    /\ T \in FinitePoints /\ Q = Zero /\ c3 \in Fq /\ c4 = 0
    /\ rest \in RestChoices /\ prover = FALSE

InitHints ==
    InitChord \/ InitTangent \/ InitAdd \/ InitDouble \/ InitEvalHonest \/ InitMul

NextHints ==
    \/ GenChord \/ GenTangent \/ GenAdd \/ GenDouble \/ GenEval
    \/ BuildStart \/ BuildDouble \/ BuildWindow \/ BuildFinish
    \/ ExecBits \/ ExecHinted \/ ExecArith \/ ExecMove \/ ExecTest \/ ExecAlt
    \/ ExecFetch \/ ExecVerify \/ ExecBranch \/ SkipOp \/ Finish

SpecHints == InitHints /\ [][NextHints]_vars

---------------------------------------------------------------------------
(* Properties                                                              *)

(* y - alpha * x + (-bias) = 0 *)
OnLine(alpha, negbias, pt) == FAdd(FSub(pt[2], FMul(alpha, pt[1])), negbias) = 0

(* alpha * (2 y) = 3 x^2 *)
SlopeOk(alpha, pt) ==
    FMul(alpha, FAdd(pt[2], pt[2])) = FMul(3, FSquare(pt[1]))

(* C7: check_line_through_point on (alpha, -bias, x, y) with the generator's
   hints never aborts, consumes the four elements and leaves one boolean,
   true exactly when y - alpha*x + (-bias) = 0; the hint is consumed. *)
C7_LineThroughPoint ==
    /\ phase \notin {"failed", "panic"}
    /\ phase = "done" =>
          /\ stack = <<Bool(OnLine(c3, c4, T))>>
          /\ alt = <<>>
          /\ used = hints

(* a false outcome left on the stack of a completed run *)
C7_Witness ==
    /\ mode = "line" /\ phase = "done"
    /\ ~OnLine(c3, c4, T) /\ stack = <<0>>

(* C5: check_chord_line never aborts and leaves one boolean, the AND of the
   two through-point checks; for T.x # Q.x it is true exactly for the chord's
   own (alpha, -bias). *)
C5_ChordLine ==
    /\ phase \notin {"failed", "panic"}
    /\ phase = "done" =>
          /\ stack = <<Bool(OnLine(c3, c4, T) /\ OnLine(c3, c4, Q))>>
          /\ alt = <<>>
          /\ T[1] # Q[1] =>
                (stack = <<1>>) =
                    (c3 = ChordAlpha(T, Q) /\ c4 = NegBias(T, ChordAlpha(T, Q)))

(* the scenario alpha + 1 with the right -bias: false *)
C5_Witness ==
    /\ mode = "chord" /\ phase = "done" /\ T[1] # Q[1]
    /\ c3 = FAdd(ChordAlpha(T, Q), 1) /\ c4 = NegBias(T, ChordAlpha(T, Q))
    /\ stack = <<0>>

(* position after the first OP_TOALTSTACK of the script *)
ParkPc == 1 + CHOOSE k \in 1 .. Len(script) :
                /\ script[k][1] = "OP_TOALTSTACK"
                /\ \A j \in 1 .. (k - 1) : script[j][1] # "OP_TOALTSTACK"

(* C6: check_tangent_line evaluates the slope identity first and parks its
   boolean on the alt stack, then runs the through-point check, and leaves
   the AND of the two. *)
C6_TangentLine ==
    /\ phase \notin {"failed", "panic"}
    /\ phase = "run" /\ pc < ParkPc => alt = <<>>
    /\ phase = "run" /\ pc >= ParkPc /\ pc <= Len(script) - 1 =>
          alt = <<Bool(SlopeOk(c3, T))>>
    /\ phase = "run" /\ pc = Len(script) - 1 => stack = <<Bool(OnLine(c3, c4, T))>>
    /\ phase = "done" =>
          /\ stack = <<Bool(SlopeOk(c3, T) /\ OnLine(c3, c4, T))>>
          /\ alt = <<>>
          /\ used = hints

(* the slope identity holds, the through-point check alone fails *)
C6_Witness ==
    /\ mode = "tangent" /\ phase = "done"
    /\ SlopeOk(c3, T) /\ ~OnLine(c3, c4, T) /\ stack = <<0>>

HonestAdd ==
    /\ mode = "add" /\ ~prover
    /\ ~IsZero(T) /\ ~IsZero(Q) /\ T[1] # Q[1]
    /\ c3 = ChordAlpha(T, Q)

AddX == FSub(FSub(FSquare(c3), T[1]), Q[1])

(* C2: check_add(T, Q, alpha) for finite T, Q with T.x # Q.x and the chord
   slope alpha, run on (hints, T, Q), passes and leaves exactly (x', y'),
   x' = alpha^2 - T.x - Q.x, y' = -bias - alpha*x', which is T + Q. *)
C2_CheckAdd ==
    HonestAdd =>
        /\ phase \notin {"failed", "panic"}
        /\ phase = "done" =>
              /\ stack = rest \o <<AddX, FSub(NegBias(T, c3), FMul(c3, AddX))>>
              /\ stack = rest \o PointAdd(T, Q)
              /\ used = hints
              /\ alt = <<>>

C2_Witness == HonestAdd /\ phase = "done" /\ rest # <<>>

IdentityAdd == mode = "add" /\ ~prover /\ (IsZero(T) \/ IsZero(Q))

(* C3: with T or Q the identity sentinel, for every coefficient argument,
   check_add leaves the other point, the generator emits no hint and the
   script takes none from the stack. *)
C3_AddIdentity ==
    IdentityAdd =>
        /\ phase \notin {"failed", "panic"}
        /\ phase \in {"run", "done"} => hints = <<>> /\ used = <<>>
        /\ phase = "done" =>
              /\ stack = rest \o (IF IsZero(T) THEN Q ELSE T)
              /\ alt = <<>>

C3_Witness ==
    /\ IdentityAdd /\ phase = "done" /\ IsZero(T) /\ ~IsZero(Q)
    /\ c3 # 0 /\ rest # <<>>

DoubleAlpha == TangentAlpha(T)

DoubleX == FSub(FSub(FSquare(DoubleAlpha), T[1]), T[1])

(* C4: check_double(T) leaves 2T for finite T (alpha = 3 T.x^2 / (2 T.y),
   x' = alpha^2 - 2 T.x, y' = -bias - alpha*x'); for the identity sentinel
   it leaves the identity, emitting and consuming no hint. *)
C4_CheckDouble ==
    mode = "double" /\ ~prover =>
        /\ phase \notin {"failed", "panic"}
        /\ phase \in {"run", "done"} /\ IsZero(T) => hints = <<>> /\ used = <<>>
        /\ phase = "done" /\ IsZero(T) => stack = rest \o Zero
        /\ phase = "done" /\ ~IsZero(T) =>
              /\ stack = rest \o <<DoubleX,
                                    FSub(NegBias(T, DoubleAlpha), FMul(DoubleAlpha, DoubleX))>>
              /\ stack = rest \o PointAdd(T, T)
              /\ used = hints
        /\ phase = "done" => alt = <<>>

C4_Witness ==
    /\ mode = "double" /\ ~prover /\ phase = "done" /\ ~IsZero(T) /\ rest # <<>>

(* C8: from_eval_point(P) on (hints, y_inv, P.x, P.y) with y_inv = 1/P.y
   leaves exactly (-P.x/P.y, 1/P.y); with y_inv * P.y # 1 the script never
   succeeds, and when the multiplication hints fit the y_inv pushed it is
   the equal-to-one check that fails. *)
C8_FromEvalPoint ==
    /\ phase # "panic"
    /\ FMul(c3, T[2]) = 1 =>
          /\ phase # "failed"
          /\ phase = "done" =>
                /\ stack = rest \o <<FDiv(FNeg(T[1]), T[2]), FInv(T[2])>>
                /\ alt = <<>>
                /\ used = hints
    /\ FMul(c3, T[2]) # 1 =>
          /\ phase # "done"
          /\ phase = "failed" /\ prover => failOp = "Fq_equalverify"

C8_Witness ==
    /\ mode = "eval" /\ phase = "failed" /\ prover
    /\ FMul(c3, T[2]) # 1 /\ failOp = "Fq_equalverify"

(* C9: soundness of the general branch of check_add: whatever coefficient
   pair and hints a prover supplies for non-identity T, Q on the stack
   (every relation between them included), a completed run leaves T + Q. *)
C9_AddSound ==
    mode = "add" /\ prover /\ phase = "done" =>
        stack = PointAdd(T, Q)

(* the same for check_double: a completed run leaves 2T *)
DoubleSound ==
    mode = "double" /\ prover /\ phase = "done" =>
        /\ c3 = TangentAlpha(T) /\ c4 = NegBias(T, TangentAlpha(T))
        /\ stack = PointAdd(T, T)

(* C1: for every scalar below the group order and every finite base point,
   with the precomputation's lists, the script of
   hinted_scalar_mul_by_constant_g1 run on (hints, scalar) completes and
   leaves exactly scalar * P, (0,0) when that is the identity, for every
   window width, the last window narrower or not. *)
C1_ScalarMul ==
    mode = "mul" =>
        /\ phase \notin {"failed", "panic"}
        /\ phase = "done" =>
              /\ stack = rest \o PointMul(scalar, p_mul[1])
              /\ alt = <<>>
              /\ used = hints

(* a completed run whose last window is narrower than the others *)
C1_Witness ==
    /\ mode = "mul" /\ phase = "done"
    /\ N_BITS % i_step # 0
    /\ scalar = GroupOrder - 1
    /\ hints # <<>>
    /\ stack = rest \o PointMul(scalar, p_mul[1])

(* what the window loop consumes *)
NumWindows(width) == (N_BITS + width - 1) \div width

NumDoublings(width) == N_BITS - WindowDepth(0, width)

ListsFit ==
    /\ Len(coeff) = NumDoublings(i_step) + NumWindows(i_step) - 1
    /\ Len(step_p) = NumDoublings(i_step)
    /\ Len(trace) = NumDoublings(i_step) + NumWindows(i_step)

(* C10: hinted_scalar_mul_by_constant_g1 returns a script only when the
   coeff, step_p and trace lists hold exactly what the window loop
   consumes; with any list shorter or longer the construction aborts, and it
   aborts for no other reason. *)
C10_ListLengths ==
    mode = "mul" =>
        /\ phase = "run" => ListsFit
        /\ phase = "panic" => ~ListsFit
        /\ ~ListsFit => script = <<>> /\ stack = <<>>
        /\ phase \in {"gen", "build"} => ENABLED NextBuild

(* one trace point too many: the abort of the final assert *)
C10_Witness ==
    /\ mode = "mul" /\ phase = "panic"
    /\ i >= N_BITS
    /\ Len(coeff) = NumDoublings(i_step) + NumWindows(i_step) - 1
    /\ Len(step_p) = NumDoublings(i_step)
    /\ Len(trace) = NumDoublings(i_step) + NumWindows(i_step) + 1

(* C11: for scalar 0 and every base point every window selects the
   identity sentinel, every check_double and check_add is built and run in
   its identity branch, no hint is returned or taken, the accumulator stays
   (0,0) and the script leaves (0,0). *)
C11_ZeroScalar ==
    mode = "mul" /\ scalar = 0 =>
        /\ phase \notin {"failed", "panic"}
        /\ \A k \in 1 .. Len(marks) :
              marks[k].q = Zero /\ marks[k].c = Zero /\ ~marks[k].general
        /\ c = Zero
        /\ hints = <<>> /\ used = <<>>
        /\ Running /\ Executing =>
              /\ CurOp[1] \notin FetchOps \cup HintedOps \cup VerifyOps
              /\ CurOp[1] = "Fq_push" => CurOp[2] = 0
        /\ phase \in {"run", "done"} => p = Zero
        /\ phase = "done" => stack = rest \o Zero /\ alt = <<>>

C11_Witness ==
    /\ mode = "mul" /\ scalar = 0 /\ phase = "done"
    /\ Len(marks) = NumDoublings(i_step) + NumWindows(i_step)
    /\ rest # <<>> /\ stack = rest \o Zero

(* the algebraic sub-checks of the composed verification, evaluated on the
   values the prover put on the stack *)
SubChecks ==
    CASE mode = "add" -> OnLine(c3, c4, T) /\ OnLine(c3, c4, Q)
      [] mode = "double" -> SlopeOk(c3, T) /\ OnLine(c3, c4, T)
      [] mode = "eval" -> FMul(c3, T[2]) = 1
      [] mode = "mul" ->
            IF forged.list # "hints" THEN TRUE
            ELSE LET m == marks[forged.at]
                 IN IF m.kind = "double"
                    THEN SlopeOk(c3, m.t) /\ OnLine(c3, c4, m.t)
                    ELSE OnLine(c3, c4, m.t) /\ OnLine(c3, c4, m.q)

(* C12: in check_add, check_double, from_eval_point and every checked step
   of the multiplier, a prover's coefficient pair or inverse for which a
   sub-check is false never leads to a completed run: the script fails, at
   the verify opcode that follows the sub-check. *)
C12_NoPartialSuccess ==
    prover =>
        /\ phase # "panic"
        /\ phase = "done" => SubChecks
        /\ phase = "failed" => ~SubChecks /\ failOp \in VerifyOps

(* a forged pair for an add of a later window of the multiplier, rejected *)
C12_Witness ==
    /\ mode = "mul" /\ prover /\ forged.list = "hints"
    /\ marks[forged.at].kind = "add" /\ ~SubChecks
    /\ phase = "failed" /\ failOp = "OP_VERIFY"

(* C13: hinted_scalar_mul_by_constant_g1 overwrites its base point argument
   with the accumulator, scalar * P for the P passed in; until it returns
   the argument is untouched, so the table and every table entry selected
   are multiples of the original P (the table and the selections do not
   change once the script is returned). *)
C13_BaseOverwritten ==
    mode = "mul" =>
        /\ phase \in {"gen", "build"} => p = T
        /\ phase \in {"build", "run"} /\ pc = 1 =>
              /\ p_mul = LookupTable(T, i_step)
              /\ \A j \in DOMAIN p_mul : p_mul[j] = PointMul(j, T)
              /\ \A k \in 1 .. Len(marks) :
                    \E j \in 0 .. (2 ^ i_step - 1) : marks[k].q = PointMul(j, T)
        /\ phase \in {"run", "done"} => p = c /\ p = PointMul(scalar, T)

(* the argument after the call differs from the point passed in *)
C13_Witness ==
    /\ mode = "mul" /\ phase = "done" /\ scalar > 1
    /\ p # T /\ p = PointMul(scalar, T) /\ p_mul[1] = T

(* C14: read_from_stack applied to the stack that push(a) leaves returns
   a point equal to a, for every point a; read_from_stack aborts exactly
   when the witness does not have 2 * N_LIMBS items. *)
C14_RoundTrip ==
    mode = "read" =>
        /\ phase = "read" => recovered = <<G1Affine(T)>>
        /\ phase = "panic" => Len(witness) # 2 * N_LIMBS
        /\ phase = "read" => Len(witness) = 2 * N_LIMBS

(* the round trip of the finite points, and the abort on a malformed witness *)
ReadFinite ==
    mode = "read" =>
        /\ phase = "read" /\ ~IsZero(T) => recovered = <<G1Affine(T)>>
        /\ phase = "read" =>
              /\ recovered[1].x = T[1] /\ recovered[1].y = T[2]
              /\ ~recovered[1].infinity
        /\ phase = "panic" => Len(witness) # 2 * N_LIMBS
        /\ phase = "read" => Len(witness) = 2 * N_LIMBS

Count(s, name) == Cardinality({k \in 1 .. Len(s) : s[k][1] = name})

CountIn(s, names) == Cardinality({k \in 1 .. Len(s) : s[k][1] \in names})

(* the entries of loop_scripts the claim describes, window after window *)
RECURSIVE WindowShape(_, _)
WindowShape(off, width) ==
    IF off >= N_BITS THEN <<>>
    ELSE LET d == IF N_BITS - off < width THEN N_BITS - off ELSE width
         IN (IF off = 0
             THEN << <<"pop", d>>, <<"select", d>> >>
             ELSE [j \in 1 .. d |-> <<"double", d>>]
                    \o << <<"pop", d>>, <<"select_add", d>> >>)
            \o WindowShape(off + width, width)

Fits(s, e) ==
    CASE e[1] = "pop" ->
            Len(s) = e[2] /\ Count(s, "OP_FROMALTSTACK") = e[2]
      [] e[1] = "select" ->
            /\ Count(s, "OP_IF") = 2 ^ e[2] - 1
            /\ Count(s, "Fq_push") = 2 * 2 ^ e[2]
            /\ CountIn(s, FetchOps \cup HintedOps \cup VerifyOps \cup AltOps) = 0
            /\ Len(s) = Count(s, "Fq_push") + 3 * Count(s, "OP_IF")
      [] e[1] = "double" ->
            /\ Count(s, "OP_NOTIF") = 1 /\ Count(s, "OP_IF") = 0
            /\ Count(s, "OP_VERIFY") = 1 /\ Count(s, "Fq_push") = 1
            /\ CountIn(s, FetchOps) = 2
      [] e[1] = "select_add" ->
            /\ Count(s, "OP_IF") = 2 ^ e[2] - 1 + 2
            /\ Count(s, "Fq_push") = 2 * 2 ^ e[2] + 2
            /\ Count(s, "OP_VERIFY") = 1
            /\ s[1][1] = "OP_IF"

(* the value of the window of d bits at offset off from the top bit *)
WindowValue(k, off, d) == (k \div 2 ^ (N_BITS - off - d)) % 2 ^ d

IsSelection(m) == m.kind \in {"seed", "add"}

(* C15: the first window only pops its bits and selects the table entry that
   seeds the accumulator, with no check_add and no hints; every later
   window is as many checked doublings as it has bits, then the pop of its
   bits, then the selection and one check_add; the first window holds the
   most significant bits, the last the least significant. *)
C15_WindowOrder ==
    mode = "mul" /\ pc = 1 =>
        /\ phase # "panic"
        /\ LET shape == WindowShape(0, i_step)
           IN /\ Len(loop_scripts) <= Len(shape)
              /\ \A k \in 1 .. Len(loop_scripts) : Fits(loop_scripts[k], shape[k])
              /\ phase = "run" => Len(loop_scripts) = Len(shape)
        /\ phase = "run" =>
              script = Fr_convert_to_le_bits_toaltstack \o Flatten(loop_scripts)
        /\ marks # <<>> =>
              /\ marks[1].kind = "seed" /\ marks[1].hints = <<>>
              /\ marks[1].t = Zero /\ marks[1].c = marks[1].q
        /\ \A k \in 2 .. Len(marks) : marks[k].kind \in {"double", "add"}
        /\ LET sel == SelectSeq(marks, IsSelection)
           IN \A w \in 1 .. Len(sel) :
                 LET off == (w - 1) * i_step
                     d == IF N_BITS - off < i_step THEN N_BITS - off ELSE i_step
                 IN sel[w].q = PointMul(WindowValue(scalar, off, d), T)
        /\ \A k \in 2 .. Len(marks) :
              marks[k].kind = "add" =>
                 LET off == (Len(SelectSeq(SubSeq(marks, 1, k), IsSelection)) - 1) * i_step
                     d == IF N_BITS - off < i_step THEN N_BITS - off ELSE i_step
                 IN /\ k > d
                    /\ \A j \in (k - d) .. (k - 1) : marks[j].kind = "double"
                    /\ marks[k - d - 1].kind \in {"seed", "add"}
        /\ phase = "run" =>
              /\ marks[Len(marks)].kind \in {"seed", "add"}
              /\ Len(SelectSeq(marks, IsSelection)) = (N_BITS + i_step - 1) \div i_step

(* a multiplier whose last window is narrower, built in full *)
C15_Witness ==
    /\ mode = "mul" /\ phase = "run" /\ pc = 1
    /\ N_BITS % i_step # 0
    /\ Len(loop_scripts) = Len(WindowShape(0, i_step))
    /\ marks[Len(marks)].kind = "add" /\ marks[Len(marks)].general

(* the step that consumes the forged entry: the k-th coefficient belongs to
   the step after the k-th, the k-th trace point to the k-th step *)
ForgedStep ==
    IF forged.list \in {"coeff.0", "coeff.1"} THEN forged.at + 1 ELSE forged.at

ForgedTracePoint ==
    /\ forged.list = "trace" /\ Len(marks) >= ForgedStep
    /\ marks[ForgedStep].kind = "double"

ForgedAddSlope ==
    /\ forged.list = "coeff.0" /\ Len(marks) >= ForgedStep
    /\ marks[ForgedStep].kind = "add"

(* C16, as stated: a supplied trace point of a doubling or a supplied add
   slope that differs from the true one makes the verification fail. *)
C16_TraceChecked ==
    mode = "mul" /\ (ForgedTracePoint \/ ForgedAddSlope) => phase # "done"

(* C16, amended: every doubling and every add is checked against the slope
   and intercept the generator computes from its own accumulator.  The
   supplied step points, trace points, doubling coefficients and add
   intercepts are consumed and not used: with a wrong one the construction
   does not abort and the verification does not fail.  The supplied add
   slope only enters the multiplication hints of the add: a run fails only
   for a wrong add slope, at a hinted multiplication.  A completed run
   leaves scalar * P. *)
C16_TraceIgnored ==
    mode = "mul" /\ forged.list \in {"coeff.0", "coeff.1", "step_p", "trace"} =>
        /\ phase # "panic"
        /\ \A k \in 1 .. Len(marks) :
              marks[k].general =>
                 SubSeq(marks[k].hints, 1, 2) =
                    IF marks[k].kind = "double"
                    THEN TangentCoeff(marks[k].t)
                    ELSE ChordCoeff(marks[k].t, marks[k].q)
        /\ phase = "failed" =>
              /\ ForgedAddSlope /\ marks[ForgedStep].general
              /\ failOp \in HintedOps
        /\ phase = "done" =>
              /\ stack = PointMul(scalar, T)
              /\ used = hints

(* a wrong trace point for a doubling in the general branch, a completed run *)
C16_Witness ==
    /\ mode = "mul" /\ ForgedTracePoint /\ marks[ForgedStep].general
    /\ trace[forged.at] # marks[ForgedStep].c
    /\ phase = "done" /\ stack = PointMul(scalar, T)

(* C17: the table holds j * P for every j below 2^w; for a window of d bits
   dfs_with_constant_mul(0, d-1, 0, p_mul) is a complete tree of 2^d - 1
   branches and 2^d leaves, and on every d-bit pattern it pushes exactly
   one point, p_mul[v] for the value v of the window, the first bit taken
   being the least significant and v = 0 giving (0,0); the entry is the one
   the generator's mask designates, and every index is inside the table. *)
C17_TableSelection ==
    mode = "dfs" /\ phase # "gen" =>
        LET d == IF N_BITS - i < i_step THEN N_BITS - i ELSE i_step
            v == WindowValue(scalar, i, d)
            tree == SubSeq(script, d + 1, Len(script))
        IN /\ phase # "failed"
           /\ pc = 1 =>
                 /\ DOMAIN p_mul = 0 .. (2 ^ i_step - 1)
                 /\ \A j \in DOMAIN p_mul : p_mul[j] = PointMul(j, p)
                 /\ Count(tree, "OP_IF") = 2 ^ d - 1
                 /\ Count(tree, "OP_ELSE") = 2 ^ d - 1
                 /\ Count(tree, "Fq_push") = 2 * 2 ^ d
                 /\ Len(tree) = 3 * (2 ^ d - 1) + 2 * 2 ^ d
                 /\ WindowMask(scalar, i, d) = v
                 /\ v \in DOMAIN p_mul
           /\ phase = "run" /\ pc = d + 1 => At(stack, 0) = v % 2
           /\ phase = "done" =>
                 /\ stack = p_mul[WindowMask(scalar, i, d)]
                 /\ stack = PointMul(v, p)
                 /\ v = 0 => stack = <<0, 0>>
                 /\ Len(alt) = N_BITS - i - d

(* the last, narrower window selecting its highest entry *)
C17_Witness ==
    /\ mode = "dfs" /\ phase = "done"
    /\ i > 0 /\ N_BITS - i < i_step
    /\ WindowValue(scalar, i, N_BITS - i) = 2 ^ (N_BITS - i) - 1
    /\ stack = PointMul(2 ^ (N_BITS - i) - 1, p)

(* the comparisons of y_inv * y with one executed so far *)
Validations ==
    Cardinality({k \in 1 .. (pc - 1) : script[k][1] = "Fq_equalverify"})

(* C18, as stated: an execution of from_eval_point validates the inverse
   claim y_inv * y = 1 once. *)
C18_ValidatedOnce ==
    mode = "eval" /\ phase = "done" => Validations = 1

(* C18, amended: an execution of from_eval_point validates y_inv * y = 1
   twice, in the y fragment and again in the x fragment, each with a
   multiplication hint of its own for the same product; the y_inv pushed is
   used for both outputs; a wrong y_inv does not pass the first validation. *)
C18_ValidatedTwice ==
    mode = "eval" =>
        /\ phase = "done" =>
              /\ Validations = 2
              /\ Len(used) = 3
              /\ used[1] = MulQuotient(c3, T[2]) /\ used[2] = MulQuotient(T[2], c3)
              /\ stack = rest \o <<FMul(c3, FNeg(T[1])), c3>>
        /\ FMul(c3, T[2]) # 1 => Validations = 0
        /\ FMul(c3, T[2]) = 1 => phase # "failed"

C18_Witness ==
    /\ mode = "eval" /\ phase = "done" /\ Validations = 2
    /\ FMul(c3, T[2]) = 1 /\ T[1] # 0

IsPrefix(a, b) == Len(a) <= Len(b) /\ SubSeq(b, 1, Len(a)) = a

(* the arguments of an honest execution: the true slope for check_add, the
   true inverse for from_eval_point *)
HonestArgs ==
    CASE mode = "add" ->
            IsZero(T) \/ IsZero(Q) \/ (T[1] # Q[1] /\ c3 = ChordAlpha(T, Q))
      [] mode = "eval" -> FMul(c3, T[2]) = 1
      [] OTHER -> TRUE

ResultSize == IF mode \in {"chord", "tangent"} THEN 1 ELSE 2

(* the number of hints of the steps before step k of the multiplier *)
RECURSIVE HintsBefore(_)
HintsBefore(k) ==
    IF k <= 1 THEN 0 ELSE HintsBefore(k - 1) + Len(marks[k - 1].hints)

StepStarts == {HintsBefore(k) : k \in 1 .. Len(marks)}

(* the hint list as the concatenation of the fragments' lists, in the order
   the fragments run *)
HintsConcatenated ==
    CASE mode = "chord" ->
            hints = hinted_check_line_through_point(Q[1], c3).hints
                      \o hinted_check_line_through_point(T[1], c3).hints
      [] mode = "tangent" ->
            hints = Fq_hinted_mul(1, FAdd(T[2], T[2]), 0, c3).hints
                      \o Fq_hinted_square(T[1]).hints
                      \o hinted_check_line_through_point(T[1], c3).hints
      [] mode = "add" ->
            hints = IF IsZero(T) \/ IsZero(Q) THEN <<>>
                    ELSE <<ChordAlpha(T, Q), NegBias(T, ChordAlpha(T, Q))>>
                           \o hinted_check_chord_line(T, Q, c3).hints
                           \o hinted_add(T[1], Q[1], c3).hints
      [] mode = "double" ->
            hints = IF IsZero(T) THEN <<>>
                    ELSE <<TangentAlpha(T), NegBias(T, TangentAlpha(T))>>
                           \o hinted_check_tangent_line(T, TangentAlpha(T)).hints
                           \o hinted_double(T, TangentAlpha(T)).hints
      [] mode = "eval" ->
            hints = hinted_y_from_eval_point(T[2], FInv(T[2])).hints
                      \o hinted_x_from_eval_point(T, FInv(T[2])).hints
      [] mode = "mul" ->
            hints = Flatten([k \in 1 .. Len(marks) |-> marks[k].hints])

(* C19: the hint list of every composite generator is the concatenation of
   its fragments' lists in the order they run, (alpha, -bias) first; pushed
   in order beneath the inputs, the hints are taken from the bottom of the
   stack in exactly that order, the two fetches of a step before its
   multiplications, and an honest execution ends with every hint taken and
   none left on the stack. *)
C19_HintOrder ==
    ~prover /\ phase \in {"run", "done", "failed"} =>
        /\ pc = 1 => HintsConcatenated
        /\ IsPrefix(used, hints)
        /\ HonestArgs => phase # "failed"
        /\ Running /\ Executing /\ CurOp[1] \in FetchOps =>
              IF mode = "mul"
              THEN \E b \in StepStarts : Len(used) \in {b, b + 1}
              ELSE Len(used) \in {0, 1}
        /\ phase = "done" /\ HonestArgs =>
              /\ used = hints
              /\ Len(stack) = Len(rest) + ResultSize
              /\ SubSeq(stack, 1, Len(rest)) = rest

(* the multiplier, with hints of several steps and hints of a later
   fragment above them *)
C19_Witness ==
    /\ mode = "mul" /\ phase = "done" /\ rest # <<>>
    /\ Len(hints) > 14 /\ used = hints
    /\ stack = rest \o PointMul(scalar, T)

(* the first of the two fetches of a step's general branch *)
AtFirstFetch ==
    /\ Running /\ Executing /\ CurOp[1] \in FetchOps
    /\ pc < Len(script) /\ script[pc + 1][1] \in FetchOps

(* C20: in the multiplier, for every scalar below the group order,
   construction never aborts; whenever the general branch of check_add is
   built or entered by the script, T and Q are finite points with
   T.x # Q.x, and whenever the general branch of check_double is built or
   entered, T is a finite point with T.y # 0. *)
C20_NonCoincidence ==
    mode = "mul" =>
        /\ phase # "panic"
        /\ \A k \in 1 .. Len(marks) :
              marks[k].general =>
                 IF marks[k].kind = "double"
                 THEN marks[k].t \in FinitePoints /\ marks[k].t[2] # 0
                 ELSE /\ marks[k].t \in FinitePoints /\ marks[k].q \in FinitePoints
                      /\ FSub(marks[k].t[1], marks[k].q[1]) # 0
        /\ AtFirstFetch =>
              LET t == <<At(stack, 1), At(stack, 0)>>
                  q == <<At(stack, 3), At(stack, 2)>>
              IN IF Len(cond) = 1
                 THEN t \in FinitePoints /\ t[2] # 0
                 ELSE /\ Len(cond) = 2
                      /\ t \in FinitePoints /\ q \in FinitePoints
                      /\ FSub(t[1], q[1]) # 0

(* the script entering the general branch of a check_add of the last window *)
C20_Witness ==
    /\ mode = "mul" /\ AtFirstFetch /\ Len(cond) = 2
    /\ marks[Len(marks)].general
    /\ <<At(stack, 1), At(stack, 0)>> = marks[Len(marks)].t
    /\ <<At(stack, 3), At(stack, 2)>> = marks[Len(marks)].q

---------------------------------------------------------------------------
(* The alt stack across the fragments of the multiplier                    *)

(* the alt stack as Fr::convert_to_le_bits_toaltstack leaves it: the most
   significant bit on top *)
ScalarBits == [k \in 1 .. N_BITS |-> get_bit(scalar, k - 1)]

(* the position in the script of the first opcode of loop_scripts[k]; for
   k = Len(loop_scripts) + 1 the position after the last opcode *)
RECURSIVE SegStart(_)
SegStart(k) ==
    IF k <= 1 THEN 2 ELSE SegStart(k - 1) + Len(loop_scripts[k - 1])

(* the entry of loop_scripts the opcode at position n belongs to *)
SegOf(n) ==
    CHOOSE k \in 1 .. (Len(loop_scripts) + 1) :
        /\ SegStart(k) <= n
        /\ k <= Len(loop_scripts) => n < SegStart(k + 1)

IsSqueeze(s) == \A k \in 1 .. Len(s) : s[k] = OP_FROMALTSTACK[1]

(* the bits the squeeze entries before loop_scripts[k] pop *)
RECURSIVE Popped(_)
Popped(k) ==
    IF k <= 1 THEN 0
    ELSE Popped(k - 1)
           + (IF IsSqueeze(loop_scripts[k - 1]) THEN Len(loop_scripts[k - 1]) ELSE 0)

(* the scalar bits still on the alt stack after n of them were popped *)
BitsLeft(n) == SubSeq(ScalarBits, 1, N_BITS - n)

(* the bits of the window at offset off, as d pops put them on the stack *)
WindowBits(off, d) == [j \in 1 .. d |-> get_bit(scalar, N_BITS - off - j)]

TopOf(s, n) == SubSeq(s, Len(s) - n + 1, Len(s))

(* C21: in the multiplier every check_double, check_add and line-check
   fragment leaves the alt stack as it found it, holding at most one flag
   above the scalar bits in between, so the bits stay in order across all
   windows; each window pops exactly its own bits, the pops of all windows
   add up to the scalar bit length, and the alt stack is empty when the
   script ends. *)
C21_AltDiscipline ==
    mode = "mul" /\ phase \in {"run", "done"} /\ pc > 1 =>
        LET k == SegOf(pc)
            n == Popped(k)
            inside == pc - SegStart(k)
        IN IF k <= Len(loop_scripts) /\ IsSqueeze(loop_scripts[k])
           THEN /\ Len(loop_scripts[k]) = WindowDepth(n, i_step)
                /\ n % i_step = 0
                /\ alt = BitsLeft(n + inside)
                /\ TopOf(stack, inside) = SubSeq(WindowBits(n, Len(loop_scripts[k])), 1, inside)
           ELSE /\ IsPrefix(BitsLeft(n), alt)
                /\ Len(alt) <= N_BITS - n + 1
                /\ inside = 0 => alt = BitsLeft(n)
                /\ Running /\ Executing /\ CurOp[1] \in VerifyOps \cup FetchOps =>
                      alt = BitsLeft(n)
                /\ inside = 0 /\ k > 1 /\ IsSqueeze(loop_scripts[k - 1]) =>
                      LET d == Len(loop_scripts[k - 1])
                      IN TopOf(stack, d) = WindowBits(n - d, d)
                /\ k = Len(loop_scripts) + 1 => n = N_BITS /\ alt = <<>>

(* a multiplier of several windows run to its end, through the general
   branch of a check_double and of the last check_add *)
C21_Witness ==
    /\ mode = "mul" /\ phase = "done" /\ alt = <<>>
    /\ Popped(Len(loop_scripts) + 1) = N_BITS
    /\ Len(SelectSeq(loop_scripts, IsSqueeze)) >= 2
    /\ \E k \in 1 .. Len(marks) : marks[k].kind = "double" /\ marks[k].general
    /\ marks[Len(marks)].kind = "add" /\ marks[Len(marks)].general

---------------------------------------------------------------------------
(* The accumulator of the generator against the run of its script          *)

IsStep(s) == ~IsSqueeze(s)

(* the step (entry of marks) that loop_scripts[k] belongs to: the steps are
   the entries of loop_scripts that are not squeezes, in order *)
MarkOf(k) == Len(SelectSeq(SubSeq(loop_scripts, 1, k), IsStep))

(* the point on top of the stack, and the one at depth n under the top *)
PointAt(n) == <<At(stack, n + 1), At(stack, n)>>

(* C22: in the honest execution of the multiplier's script the point on top
   of the stack before every doubling and add is the accumulator c the
   generator held when it built the step, and after the step it is the c
   the generator computed; the script enters the general branch of a step,
   where its hints are fetched, exactly when the generator returned hints
   for that step, and every step leaves taken exactly the hints emitted up
   to it. *)
C22_Agreement ==
    mode = "mul" /\ phase \in {"run", "done", "failed"} =>
        /\ phase # "failed"
        /\ Len(marks) = Len(SelectSeq(loop_scripts, IsStep))
        /\ pc > 1 =>
              LET k == SegOf(pc)
                  inside == pc - SegStart(k)
              IN /\ inside = 0 /\ k > 1 /\ IsStep(loop_scripts[k - 1]) =>
                       LET m == marks[MarkOf(k - 1)]
                       IN /\ PointAt(0) = m.c
                          /\ m.c = IF m.kind = "double" THEN PointAdd(m.t, m.t)
                                   ELSE PointAdd(m.t, m.q)
                          /\ Len(used) = HintsBefore(MarkOf(k - 1)) + Len(m.hints)
                 /\ inside = 0 /\ k <= Len(loop_scripts) /\ IsStep(loop_scripts[k])
                       /\ MarkOf(k) > 1 =>
                       LET m == marks[MarkOf(k)]
                           d == IF m.kind = "add" THEN Len(loop_scripts[k - 1]) ELSE 0
                       IN /\ PointAt(d) = m.t
                          /\ m.t = marks[MarkOf(k) - 1].c
                 /\ k <= Len(loop_scripts) /\ Running /\ CurOp[1] \in FetchOps =>
                       (Executing <=> marks[MarkOf(k)].general)
                 /\ k <= Len(loop_scripts) /\ IsStep(loop_scripts[k]) =>
                       LET m == marks[MarkOf(k)]
                       IN /\ m.general <=> m.hints # <<>>
                          /\ m.general <=>
                                IF m.kind = "double" THEN ~IsZero(m.t)
                                ELSE m.kind = "add" /\ ~IsZero(m.t) /\ ~IsZero(m.q)
        /\ phase = "done" => PointAt(0) = c /\ c = p /\ used = hints

(* a run that took the general branch of every doubling, with all the hints
   emitted now taken, and is passing over the fetches of an add of the
   identity, for which no hints were emitted *)
C22_Witness ==
    /\ mode = "mul" /\ Running /\ ~Executing /\ CurOp[1] \in FetchOps
    /\ MarkOf(SegOf(pc)) = Len(marks)
    /\ marks[Len(marks)].kind = "add" /\ ~marks[Len(marks)].general
    /\ \E j \in 1 .. (Len(marks) - 1) : marks[j].kind = "double" /\ marks[j].general
    /\ used = hints /\ hints # <<>>
    /\ PointAt(0) = marks[Len(marks)].c

===========================================================================
